---- MODULE Spec2Model ----
(***************************************************************************)
(* Human-in-the-loop workflows of my-ai-tools: the auto planning flow      *)
(* (plan_auto.py), the interactive planning flow (plan_interactive.py)     *)
(* and the PR review flow (pr_review.py), each a LangGraph StateGraph      *)
(* compiled with a SqliteSaver checkpointer and interrupt_before nodes.    *)
(* A start/resume call is one action: update_state, then invoke until the  *)
(* next interrupt point or the end of the graph.  SpecRace splits a resume *)
(* into its two checkpointer calls, SpecTwo runs two sessions on one       *)
(* project root, SpecRows follows the rows of the checkpoints table,       *)
(* SpecRounds counts revision rounds of the auto flow on those rows,       *)
(* SpecLLM adds the backends' _chat, SpecHello and SpecPrincipal run the   *)
(* two graphs without pauses (hello_world.py, principal_flow.py).          *)
(* SpecCli drives a session as scripts/plan_cli.py does, SpecBackend       *)
(* resolves the backend name of the auto flow before the graph is built.   *)
(*                                                                         *)
(* Text is a sequence of one-character strings, so that strip(), lower()   *)
(* and the parsing done by the code are computed, not assumed.             *)
(***************************************************************************)
EXTENDS Integers, Sequences, FiniteSets, TLC

VARIABLES db, connMem, fs, call, inflight, rows

vars == <<db, connMem, fs, call, inflight, rows>>

(***************************************************************************)
(* Bounds of the model.                                                    *)
(***************************************************************************)
\* number of distinct texts the content generator may return
MaxGenOutputs == 1

\* number of checkpoint rows of a thread followed in the checkpoints table
MaxRows == 3

\* session (thread) ids: one session, and two for the claims about several
OneThread == {"A"}

Threads == {"A", "B"}

(***************************************************************************)
(* Text helpers: str.strip(), str.lower(), substring search.               *)
(***************************************************************************)
UpperChars == <<"A","B","C","D","E","F","G","H","I","J","K","L","M",
                "N","O","P","Q","R","S","T","U","V","W","X","Y","Z">>

LowerChars == <<"a","b","c","d","e","f","g","h","i","j","k","l","m",
                "n","o","p","q","r","s","t","u","v","w","x","y","z">>

IsSpace(c) == c \in {" ", "\n", "\t", "\r"}

IsDigit(c) == c \in {"0","1","2","3","4","5","6","7","8","9"}

LowerChar(c) ==
    IF \E i \in 1..26 : UpperChars[i] = c
    THEN LowerChars[CHOOSE i \in 1..26 : UpperChars[i] = c]
    ELSE c

\* str.lower()
Lower(s) == [i \in 1..Len(s) |-> LowerChar(s[i])]

RECURSIVE LStrip(_)
\* str.lstrip()
LStrip(s) ==
    IF s # <<>> /\ IsSpace(Head(s)) THEN LStrip(Tail(s)) ELSE s

RECURSIVE RStrip(_)
\* str.rstrip()
RStrip(s) ==
    IF s # <<>> /\ IsSpace(s[Len(s)]) THEN RStrip(SubSeq(s, 1, Len(s) - 1)) ELSE s

\* str.strip()
Strip(s) == RStrip(LStrip(s))

\* s[i:] starts with p
StartsAt(s, i, p) ==
    /\ i + Len(p) - 1 <= Len(s)
    /\ \A k \in 1..Len(p) : s[i + k - 1] = p[k]

\* str.find(p) + 1, or 0 when p does not occur in s
Find(s, p) ==
    IF \E i \in 1..Len(s) : StartsAt(s, i, p)
    THEN CHOOSE i \in 1..Len(s) : StartsAt(s, i, p) /\ \A j \in 1..(i - 1) : ~StartsAt(s, j, p)
    ELSE 0

RECURSIVE ReplaceAll(_, _)
\* str.replace(p, "")
ReplaceAll(s, p) ==
    LET i == Find(s, p) IN
    IF i = 0 THEN s
    ELSE SubSeq(s, 1, i - 1) \o ReplaceAll(SubSeq(s, i + Len(p), Len(s)), p)

(***************************************************************************)
(* Literal texts of the code.                                              *)
(***************************************************************************)
Approved == <<"a","p","p","r","o","v","e","d">>

Abort == <<"a","b","o","r","t">>

ApproveTokens ==
    { Approved,
      <<"n","e","x","t">>,
      <<"c","o","n","t","i","n","u","e">>,
      <<"y","e","s">>,
      <<"o","k">> }

PlannerError == <<"P","l","a","n","n","e","r"," ","e","r","r","o","r">>

InterfacerError == <<"I","n","t","e","r","f","a","c","e","r"," ","e","r","r","o","r">>

ExecutorError == <<"E","x","e","c","u","t","o","r"," ","e","r","r","o","r">>

PlanNotFound == <<"p","l","a","n",".","m","d"," ","n","o","t"," ","f","o","u","n","d">>

InterfaceNotFound == <<"i","n","t","e","r","f","a","c","e",".","m","d"," ","n","o","t"," ","f","o","u","n","d">>

PLAN_FILE == "plan.md"

INTERFACE_FILE == "interface.md"

CODE_FILE == "generated_module.py"

TEST_FILE == "test_baseline.py"

Files == {PLAN_FILE, INTERFACE_FILE, CODE_FILE, TEST_FILE}

END == "__end__"

START == "__start__"

(***************************************************************************)
(* Inputs the callers supply.                                              *)
(***************************************************************************)
\* feedback texts: empty, blank, free-form revision notes, the approval
\* token as it is and padded in mixed case, another approval token of the
\* PR review, and abort as it is and padded in upper case
RevisionNote == <<"a","d","d"," ","T","T","L">>

ApprovedPadded == <<" ","A","p","p","r","o","v","e","d","\n">>

AbortPadded == <<"\t","A","B","O","R","T">>

AutoFeedbackInputs == { <<>>, <<" ">>, RevisionNote, Approved, ApprovedPadded, Abort }

InteractiveFeedbackInputs == { <<>>, <<" ">>, RevisionNote, Approved }

PRFeedbackInputs ==
    { <<>>, RevisionNote, Approved, ApprovedPadded, <<"O","k"," ">>, Abort, AbortPadded }

\* the task descriptions and project roots given at start
TaskInputs == { <<"t","a","s","k">> }

RootInputs == {"", "proj"}

Cwd == "cwd"

Roots == {Cwd, "proj"}

\* what the content generator returns when it succeeds
GenDigits == <<"1","2","3","4">>

GenOutputs == { <<"g", GenDigits[i]>> : i \in 1..MaxGenOutputs }

(***************************************************************************)
(* Session state, checkpoints and the file system.                         *)
(***************************************************************************)
\* no checkpoint stored for a thread id: the empty checkpoint the graph
\* works on has no values and no task, and was written by no node
NoCkpt == [kind |-> "none", values |-> <<>>, next |-> END, last |-> START]

\* a file that does not exist / a file holding text
NoFile == [exists |-> FALSE, text |-> <<>>]

FileOf(text) == [exists |-> TRUE, text |-> text]

\* a merge that blanks the task description when the patch does not name it
MergeBlanksTask(values, patch) ==
    [k \in (DOMAIN values) \cup (DOMAIN patch) |->
        IF k \in DOMAIN patch THEN patch[k]
        ELSE IF k = "task_description" THEN <<>> ELSE values[k]]

\* new_state = merge(old_state, patch): named fields overwritten, rest kept
Merge(values, patch) ==
    [k \in (DOMAIN values) \cup (DOMAIN patch) |->
        IF k \in DOMAIN patch THEN patch[k] ELSE values[k]]

\* state.get(key, default)
Get(values, key, default) ==
    IF key \in DOMAIN values THEN values[key] ELSE default

\* the empty update {} a node may return
EmptyPatch == <<>>

\* project_root or os.getcwd()
OrCwd(root) == IF root = "" THEN Cwd ELSE root

\* planning_common.ensure_project_path
ensure_project_path(project_root) == OrCwd(project_root)

\* result of one node function: the update it returns, the file system it
\* leaves, the generator calls it made, and whether it raised
NodeResult(patch, files, gens) ==
    [patch |-> patch, fs |-> files, gens |-> gens, raised |-> FALSE]

NodeRaised(files) ==
    [patch |-> EmptyPatch, fs |-> files, gens |-> <<>>, raised |-> TRUE]

(***************************************************************************)
(* plan_auto.py: nodes and routing of the auto planning graph.             *)
(* env.gen says whether the backend call returns ("ok") or raises, and     *)
(* env.out is the text it returns.                                         *)
(***************************************************************************)
\* a planner that hands the plan over without opening its review
auto_planner_stays_planning(state, files, env) ==
    IF "project_root" \notin DOMAIN state \/ env.gen = "raise"
    THEN NodeResult([phase |-> "error", human_feedback |-> PlannerError],
                    files, <<>>)
    ELSE NodeResult([phase |-> "planning", human_feedback |-> <<>>],
                    [files EXCEPT ![ensure_project_path(state.project_root)][PLAN_FILE] =
                                      FileOf(env.out)],
                    <<>>)

\* a planner that revises on feedback whether or not plan.md is there
auto_planner_revises_without_plan(state, files, env) ==
    LET feedback == Get(state, "human_feedback", <<>>)
        gen == IF feedback # <<>> /\ Strip(Lower(feedback)) # Approved
               THEN [fn |-> "generate_plan_revision", feedback |-> feedback]
               ELSE [fn |-> "generate_plan", feedback |-> <<>>]
    IN  IF "project_root" \notin DOMAIN state
        THEN NodeResult([phase |-> "error", human_feedback |-> PlannerError],
                        files, <<>>)
        ELSE IF env.gen = "raise"
        THEN NodeResult([phase |-> "error", human_feedback |-> PlannerError],
                        files, <<gen>>)
        ELSE NodeResult([phase |-> "plan_review", human_feedback |-> <<>>],
                        [files EXCEPT ![ensure_project_path(state.project_root)][PLAN_FILE] =
                                          FileOf(env.out)],
                        <<gen>>)

auto_planner(state, files, env) ==
    LET root == ensure_project_path(state.project_root)
        feedback == Get(state, "human_feedback", <<>>)
        revise == /\ feedback # <<>>
                  /\ Strip(Lower(feedback)) # Approved
                  /\ files[root][PLAN_FILE].exists
        gen == IF revise
               THEN [fn |-> "generate_plan_revision", feedback |-> feedback]
               ELSE [fn |-> "generate_plan", feedback |-> <<>>]
    IN  IF "project_root" \notin DOMAIN state
        THEN NodeResult([phase |-> "error", human_feedback |-> PlannerError],
                        files, <<>>)
        ELSE IF env.gen = "raise"
        THEN NodeResult([phase |-> "error", human_feedback |-> PlannerError],
                        files, <<gen>>)
        ELSE NodeResult([phase |-> "plan_review", human_feedback |-> <<>>],
                        [files EXCEPT ![root][PLAN_FILE] = FileOf(env.out)],
                        <<gen>>)

auto_plan_review(state, files, env) ==
    NodeResult([phase |-> "plan_review"], files, <<>>)

\* a router that never lets the plan through
route_plan_review_never_advances(state) == "planner"

\* a router that ends the flow on abort, a name build_graph does not
\* declare for the edge of plan_review
route_plan_review_ends_on_abort(state) ==
    LET feedback == Lower(Strip(Get(state, "human_feedback", <<>>)))
    IN  IF feedback = Abort THEN END
        ELSE IF feedback = Approved THEN "interfacer" ELSE "planner"

route_plan_review(state) ==
    LET feedback == Lower(Strip(Get(state, "human_feedback", <<>>)))
    IN  IF feedback = Approved THEN "interfacer" ELSE "planner"

auto_interfacer(state, files, env) ==
    LET root == ensure_project_path(state.project_root)
        feedback == Get(state, "human_feedback", <<>>)
        revise == /\ feedback # <<>>
                  /\ Strip(Lower(feedback)) # Approved
                  /\ files[root][INTERFACE_FILE].exists
        gen == IF revise
               THEN [fn |-> "generate_interface_revision", feedback |-> feedback]
               ELSE [fn |-> "generate_interface", feedback |-> <<>>]
    IN  IF "project_root" \notin DOMAIN state
        THEN NodeResult([phase |-> "error", human_feedback |-> InterfacerError],
                        files, <<>>)
        ELSE IF ~files[root][PLAN_FILE].exists
        THEN NodeResult([phase |-> "error", human_feedback |-> PlanNotFound],
                        files, <<>>)
        ELSE IF env.gen = "raise"
        THEN NodeResult([phase |-> "error", human_feedback |-> InterfacerError],
                        files, <<gen>>)
        ELSE NodeResult([phase |-> "interface_review", human_feedback |-> <<>>],
                        [files EXCEPT ![root][INTERFACE_FILE] = FileOf(env.out)],
                        <<gen>>)

auto_interface_review(state, files, env) ==
    NodeResult([phase |-> "interface_review"], files, <<>>)

\* a router that takes any feedback for an approval
route_interface_review_any_feedback(state) ==
    IF Get(state, "human_feedback", <<>>) # <<>> THEN "executor" ELSE "interfacer"

route_interface_review(state) ==
    LET feedback == Lower(Strip(Get(state, "human_feedback", <<>>)))
    IN  IF feedback = Approved THEN "executor" ELSE "interfacer"

\* an executor without its try/except: a failure leaves the node as an
\* exception
auto_executor_uncaught(state, files, env) ==
    IF "project_root" \in DOMAIN state
       /\ files[ensure_project_path(state.project_root)][INTERFACE_FILE].exists
       /\ env.gen = "ok"
    THEN NodeResult([phase |-> "done", human_feedback |-> <<>>],
                    [files EXCEPT
                       ![ensure_project_path(state.project_root)][CODE_FILE] =
                           FileOf(env.out),
                       ![ensure_project_path(state.project_root)][TEST_FILE] =
                           FileOf(env.out)],
                    <<[fn |-> "generate_code_and_tests", feedback |-> <<>>]>>)
    ELSE NodeRaised(files)

auto_executor(state, files, env) ==
    LET root == ensure_project_path(state.project_root)
        gen == [fn |-> "generate_code_and_tests", feedback |-> <<>>]
    IN  IF "project_root" \notin DOMAIN state
        THEN NodeResult([phase |-> "error", human_feedback |-> ExecutorError],
                        files, <<>>)
        ELSE IF ~files[root][INTERFACE_FILE].exists
        THEN NodeResult([phase |-> "error", human_feedback |-> InterfaceNotFound],
                        files, <<>>)
        ELSE IF env.gen = "raise"
        THEN NodeResult([phase |-> "error", human_feedback |-> ExecutorError],
                        files, <<gen>>)
        ELSE NodeResult([phase |-> "done", human_feedback |-> <<>>],
                        [files EXCEPT ![root][CODE_FILE] = FileOf(env.out),
                                      ![root][TEST_FILE] = FileOf(env.out)],
                        <<gen>>)

(***************************************************************************)
(* planning_common.py: context bundles.  A bundle is kept as its parts     *)
(* (the code joins them with newlines); SKILL.md is not installed.         *)
(***************************************************************************)
\* the empty context_bundle ""
EmptyBundle ==
    [kind |-> "", task |-> <<>>, project |-> "", source |-> <<>>,
     existing |-> <<>>, feedback |-> <<>>, instruction |-> ""]

Instruction(feedback, existing) ==
    IF existing # <<>> \/ feedback # <<>> THEN "revise" ELSE "generate"

\* a plan context that leaves the revision feedback out
assemble_plan_context_without_feedback(task_description, project_root, feedback, existing_plan) ==
    [kind |-> "plan", task |-> task_description, project |-> project_root,
     source |-> <<>>, existing |-> existing_plan, feedback |-> <<>>,
     instruction |-> Instruction(<<>>, existing_plan)]

assemble_plan_context(task_description, project_root, feedback, existing_plan) ==
    [kind |-> "plan", task |-> task_description, project |-> project_root,
     source |-> <<>>, existing |-> existing_plan, feedback |-> feedback,
     instruction |-> Instruction(feedback, existing_plan)]

assemble_interface_context(plan_content, project_root, feedback, existing_interface) ==
    [kind |-> "interface", task |-> <<>>, project |-> project_root,
     source |-> plan_content, existing |-> existing_interface,
     feedback |-> feedback,
     instruction |-> Instruction(feedback, existing_interface)]

assemble_code_context(interface_content, project_root, feedback, existing_code) ==
    [kind |-> "code", task |-> <<>>, project |-> project_root,
     source |-> interface_content, existing |-> existing_code,
     feedback |-> feedback,
     instruction |-> Instruction(feedback, existing_code)]

(***************************************************************************)
(* plan_interactive.py: nodes and routing of the interactive graph.        *)
(***************************************************************************)
TestMarker == <<"#","#"," ","T","E","S","T">>

ModuleMarker == <<"#","#"," ","M","O","D","U","L","E">>

DefaultTest == <<"#"," ","A","d","d"," ","p","y","t","e","s","t"," ","t","e","s","t","s"," ","h","e","r","e">>

\* existing artifact text, read only when there is feedback and the file exists
ExistingText(files, root, file, feedback) ==
    IF feedback # <<>> /\ files[root][file].exists
    THEN files[root][file].text
    ELSE <<>>

\* an assemble step that leaves the feedback in the state
interactive_assemble_keeps_feedback(state, files, env) ==
    LET phase == state.phase
        root == ensure_project_path(state.project_root)
        feedback == Get(state, "human_feedback", <<>>)
        done(context) ==
            NodeResult([context_bundle |-> context,
                        generated_content |-> <<>>,
                        human_feedback |-> feedback], files, <<>>)
    IN  IF {"phase", "project_root"} \ DOMAIN state # {} THEN NodeRaised(files)
        ELSE
        CASE phase = "plan" ->
               done(assemble_plan_context(state.task_description, root, feedback,
                        ExistingText(files, root, PLAN_FILE, feedback)))
          [] phase = "interface" ->
               IF ~files[root][PLAN_FILE].exists THEN NodeRaised(files)
               ELSE done(assemble_interface_context(files[root][PLAN_FILE].text,
                        root, feedback,
                        ExistingText(files, root, INTERFACE_FILE, feedback)))
          [] phase = "code" ->
               IF ~files[root][INTERFACE_FILE].exists THEN NodeRaised(files)
               ELSE done(assemble_code_context(files[root][INTERFACE_FILE].text,
                        root, feedback,
                        ExistingText(files, root, CODE_FILE, feedback)))
          [] OTHER -> done(EmptyBundle)
interactive_assemble(state, files, env) ==
    LET phase == state.phase
        root == ensure_project_path(state.project_root)
        feedback == Get(state, "human_feedback", <<>>)
        done(context) ==
            NodeResult([context_bundle |-> context,
                        generated_content |-> <<>>,
                        human_feedback |-> <<>>], files, <<>>)
    IN  IF {"phase", "project_root"} \ DOMAIN state # {} THEN NodeRaised(files)
        ELSE
        CASE phase = "plan" ->
               done(assemble_plan_context(state.task_description, root, feedback,
                        ExistingText(files, root, PLAN_FILE, feedback)))
          [] phase = "interface" ->
               IF ~files[root][PLAN_FILE].exists THEN NodeRaised(files)
               ELSE done(assemble_interface_context(files[root][PLAN_FILE].text,
                        root, feedback,
                        ExistingText(files, root, INTERFACE_FILE, feedback)))
          [] phase = "code" ->
               IF ~files[root][INTERFACE_FILE].exists THEN NodeRaised(files)
               ELSE done(assemble_code_context(files[root][INTERFACE_FILE].text,
                        root, feedback,
                        ExistingText(files, root, CODE_FILE, feedback)))
          [] OTHER -> done(EmptyBundle)

interactive_gate(state, files, env) == NodeResult(EmptyPatch, files, <<>>)

\* a router that never saves
route_gate_never_saves(state) == "assemble"

\* a router that saves content that is blank
route_gate_saves_blank(state) ==
    IF Get(state, "generated_content", <<>>) # <<>>
    THEN "save"
    ELSE "assemble"

route_gate(state) ==
    IF Strip(Get(state, "generated_content", <<>>)) # <<>>
    THEN "save"
    ELSE "assemble"

\* the module part and the test part of generated code content
CodePart(content) ==
    LET i == Find(content, TestMarker)
    IN  IF i # 0
        THEN Strip(ReplaceAll(SubSeq(content, 1, i - 1), ModuleMarker))
        ELSE content

TestPart(content) ==
    LET i == Find(content, TestMarker)
    IN  IF i # 0
        THEN Strip(SubSeq(content, i + Len(TestMarker), Len(content)))
        ELSE DefaultTest

interactive_save(state, files, env) ==
    LET phase == state.phase
        root == ensure_project_path(state.project_root)
        content == state.generated_content
        done(next_phase, newFiles) ==
            NodeResult([phase |-> next_phase,
                        generated_content |-> <<>>,
                        context_bundle |-> EmptyBundle], newFiles, <<>>)
    IN  IF {"phase", "project_root", "generated_content"} \ DOMAIN state # {}
        THEN NodeRaised(files)
        ELSE
        CASE phase = "plan" ->
               done("interface", [files EXCEPT ![root][PLAN_FILE] = FileOf(content)])
          [] phase = "interface" ->
               done("code", [files EXCEPT ![root][INTERFACE_FILE] = FileOf(content)])
          [] phase = "code" ->
               done("done", [files EXCEPT ![root][CODE_FILE] = FileOf(CodePart(content)),
                                          ![root][TEST_FILE] = FileOf(TestPart(content))])
          [] OTHER -> done("done", files)

\* a router that goes on assembling after the last phase
route_after_save_never_ends(state) == "assemble"

route_after_save(state) ==
    IF state.phase = "done" THEN END ELSE "assemble"

(***************************************************************************)
(* pr_review.py: parse_recommendations, computed on the characters.        *)
(***************************************************************************)
RecWord == <<"r","e","c","o","m","m","e","n","d","a","t","i","o","n">>

RECURSIVE SkipSpace(_, _)
\* first index >= i of s that is not whitespace (Len(s) + 1 if none)
SkipSpace(s, i) ==
    IF i <= Len(s) /\ IsSpace(s[i]) THEN SkipSpace(s, i + 1) ELSE i

RECURSIVE SkipDigits(_, _)
\* first index >= i of s that is not a digit
SkipDigits(s, i) ==
    IF i <= Len(s) /\ IsDigit(s[i]) THEN SkipDigits(s, i + 1) ELSE i

\* e if the digits d..e-1 are followed by "." or ")" at e, else 0
DigitsEnd(s, d, e) ==
    IF e > d /\ e <= Len(s) /\ s[e] \in {".", ")"} THEN e ELSE 0

\* \d+[.)] starting at index d: index of the "." or ")", or 0
NumberAt(s, d) == DigitsEnd(s, d, SkipDigits(s, d))

\* end of a match of  \s*\d+[.)]  starting at index i, or 0
NumberEnd(s, i) == NumberAt(s, SkipSpace(s, i))

\* a whitespace character follows index e # 0
SpaceAfter(s, e) == e # 0 /\ e + 1 <= Len(s) /\ IsSpace(s[e + 1])

\* the lookahead  (?=\s*\d+[.)]\s+)  holds at index i
NumberedAhead(s, i) == SpaceAfter(s, NumberEnd(s, i))

\* index after a match of  \s*\n  in the whitespace run from..stop-1, or 0
NewlineRunEnd(s, from, stop) ==
    IF \E k \in from..(stop - 1) : s[k] = "\n" THEN stop ELSE 0

\* index after a match of  Recommendations?\s*\n  starting at w, or 0
WordEnd(s, w) ==
    IF /\ w + Len(RecWord) - 1 <= Len(s)
       /\ Lower(SubSeq(s, w, w + Len(RecWord) - 1)) = RecWord
    THEN IF /\ w + Len(RecWord) <= Len(s)
            /\ LowerChar(s[w + Len(RecWord)]) = "s"
         THEN NewlineRunEnd(s, w + Len(RecWord) + 1,
                            SkipSpace(s, w + Len(RecWord) + 1))
         ELSE NewlineRunEnd(s, w + Len(RecWord), SkipSpace(s, w + Len(RecWord)))
    ELSE 0

\* index after a match of  ##\s*Recommendations?\s*\n  starting at i, or 0
HeaderEnd(s, i) ==
    IF StartsAt(s, i, <<"#","#">>) THEN WordEnd(s, SkipSpace(s, i + 2)) ELSE 0

RECURSIVE FirstHeaderEnd(_, _)
\* HeaderEnd of the leftmost match at an index >= i, or 0 (re.search)
FirstHeaderEnd(s, i) ==
    IF i > Len(s) THEN 0
    ELSE IF StartsAt(s, i, <<"#","#">>) /\ HeaderEnd(s, i) # 0
         THEN HeaderEnd(s, i)
         ELSE FirstHeaderEnd(s, i + 1)

\* the text from index `from` on, stripped; the whole text when from = 0
SectionFrom(text, from) ==
    IF from # 0 THEN Strip(SubSeq(text, from, Len(text))) ELSE text

\* the text after the first "## Recommendations" header, else the whole text
SectionOf(text) == SectionFrom(text, FirstHeaderEnd(text, 1))

RECURSIVE SplitNumbered(_, _, _)
\* re.split(r"\n(?=\s*\d+[.)]\s+)", s): pieces of s from index start on
SplitNumbered(s, start, i) ==
    IF i > Len(s) THEN <<SubSeq(s, start, Len(s))>>
    ELSE IF s[i] = "\n" /\ NumberedAhead(s, i + 1)
         THEN <<SubSeq(s, start, i - 1)>> \o SplitNumbered(s, i + 1, i + 1)
         ELSE SplitNumbered(s, start, i + 1)

\* p without its first e characters, stripped
DropPrefix(p, e) == Strip(SubSeq(p, e + 1, Len(p)))

\* re.sub(r"^\s*\d+[.)]\s*", "", p, count=1).strip()
DropNumber(p) == DropPrefix(p, NumberEnd(p, 1))

\* the members of a list of texts that are not empty
NonEmpty(texts) == SelectSeq(texts, LAMBDA t : t # <<>>)

\* [p.strip() for p in parts if p.strip()]
NonBlank(parts) == NonEmpty([k \in 1..Len(parts) |-> Strip(parts[k])])

\* the items without their leading numbers, those left empty dropped
Cleaned(items) == NonEmpty([k \in 1..Len(items) |-> DropNumber(items[k])])

\* the list returned for a section and its cleaned items
Recommendations(full_text, section, cleaned) ==
    IF cleaned # <<>> THEN cleaned
    ELSE IF Strip(section) # <<>> THEN <<section>>
    ELSE <<full_text>>

ParseSection(full_text, section) ==
    Recommendations(full_text, section,
                    Cleaned(NonBlank(SplitNumbered(section, 1, 1))))

parse_recommendations(full_text) ==
    IF Strip(full_text) = <<>> THEN <<>>
    ELSE ParseSection(full_text, SectionOf(Strip(full_text)))

(***************************************************************************)
(* pr_review.py: nodes and routing of the PR review graph.                 *)
(* env.pull says whether run_pr_review_v2_and_sync returns or raises, and  *)
(* env.repoIsDir whether the repo path it returns is a directory.          *)
(***************************************************************************)
PullError == <<"p","u","l","l"," ","f","a","i","l","e","d">>

NotADirectory == <<"N","o","t"," ","a"," ","d","i","r","e","c","t","o","r","y">>

\* the path returned by run_pr_review_v2_and_sync; "" resolves to the cwd
RepoPath == "reviews/pr-review"

\* the empty review_context_bundle "" and an assembled one
EmptyReviewBundle == [repo |-> "", assembled |-> FALSE]

ReviewBundle(repo_path) == [repo |-> repo_path, assembled |-> TRUE]

pull_data(state, files, env) ==
    IF "pr_url" \notin DOMAIN state THEN NodeRaised(files)
    ELSE IF env.pull = "ok"
    THEN NodeResult([repo_path |-> RepoPath, phase |-> "review",
                     recommendations |-> <<>>, current_index |-> 0],
                    files, <<>>)
    ELSE NodeResult([phase |-> "error", full_review_text |-> PullError,
                     recommendations |-> <<PullError>>],
                    files, <<>>)

\* get_repo_context(...).get("error"): Path("").resolve() is the cwd
RepoContextError(repo_path, env) ==
    IF repo_path = "" THEN FALSE ELSE ~env.repoIsDir

assemble_review_context(state, files, env) ==
    LET repo_path == Get(state, "repo_path", "")
    IN  IF RepoContextError(repo_path, env)
        THEN NodeResult([phase |-> "error",
                         review_context_bundle |-> EmptyReviewBundle,
                         recommendations |-> <<NotADirectory>>],
                        files, <<>>)
        ELSE NodeResult([phase |-> "review",
                         review_context_bundle |-> ReviewBundle(repo_path),
                         generated_review_content |-> <<>>],
                        files, <<>>)

\* an injection that leaves the submitted content in the state
InjectKeepsContent(content, recommendations, files) ==
    NodeResult([phase |-> "recommendation",
                full_review_text |-> content,
                recommendations |-> recommendations,
                current_index |-> 0,
                current_recommendation_text |->
                    IF recommendations # <<>> THEN recommendations[1] ELSE <<>>],
               files, <<>>)

\* the update that injects the parsed review
Inject(content, recommendations, files) ==
    NodeResult([phase |-> "recommendation",
                full_review_text |-> content,
                recommendations |-> recommendations,
                current_index |-> 0,
                current_recommendation_text |->
                    IF recommendations # <<>> THEN recommendations[1] ELSE <<>>,
                generated_review_content |-> <<>>],
               files, <<>>)

\* if not recommendations: recommendations = [content]
OrContent(parsed, content) == IF parsed = <<>> THEN <<content>> ELSE parsed

GateReviewOf(content, files) ==
    IF content = <<>> THEN NodeResult(EmptyPatch, files, <<>>)
    ELSE Inject(content, OrContent(parse_recommendations(content), content), files)

gate_review(state, files, env) ==
    GateReviewOf(Strip(Get(state, "generated_review_content", <<>>)), files)

present_recommendation(state, files, env) ==
    LET recs == Get(state, "recommendations", <<>>)
        idx == Get(state, "current_index", 0)
        text == IF 0 <= idx /\ idx < Len(recs) THEN recs[idx + 1] ELSE <<>>
    IN  NodeResult([current_recommendation_text |-> text,
                    phase |-> "recommendation"], files, <<>>)

\* a gate that is done one approval too late
pr_gate_off_by_one(state, files, env) ==
    LET feedback == Lower(Strip(Get(state, "human_feedback", <<>>)))
        recs == Get(state, "recommendations", <<>>)
        idx == Get(state, "current_index", 0)
        next_idx == idx + 1
    IN  IF feedback = Abort
        THEN NodeResult([phase |-> "aborted", current_index |-> idx], files, <<>>)
        ELSE IF feedback \in ApproveTokens
        THEN IF next_idx > Len(recs)
             THEN NodeResult([phase |-> "done", current_index |-> next_idx],
                             files, <<>>)
             ELSE NodeResult([phase |-> "recommendation",
                              current_index |-> next_idx], files, <<>>)
        ELSE NodeResult([phase |-> "recommendation", current_index |-> idx],
                        files, <<>>)

\* a gate that passes over the recommendation after the approved one
pr_gate_skips_one(state, files, env) ==
    LET feedback == Lower(Strip(Get(state, "human_feedback", <<>>)))
        recs == Get(state, "recommendations", <<>>)
        idx == Get(state, "current_index", 0)
        next_idx == idx + 2
    IN  IF feedback = Abort
        THEN NodeResult([phase |-> "aborted", current_index |-> idx], files, <<>>)
        ELSE IF feedback \in ApproveTokens
        THEN IF next_idx >= Len(recs)
             THEN NodeResult([phase |-> "done", current_index |-> next_idx],
                             files, <<>>)
             ELSE NodeResult([phase |-> "recommendation",
                              current_index |-> next_idx], files, <<>>)
        ELSE NodeResult([phase |-> "recommendation", current_index |-> idx],
                        files, <<>>)

pr_gate(state, files, env) ==
    LET feedback == Lower(Strip(Get(state, "human_feedback", <<>>)))
        recs == Get(state, "recommendations", <<>>)
        idx == Get(state, "current_index", 0)
        next_idx == idx + 1
    IN  IF feedback = Abort
        THEN NodeResult([phase |-> "aborted", current_index |-> idx], files, <<>>)
        ELSE IF feedback \in ApproveTokens
        THEN IF next_idx >= Len(recs)
             THEN NodeResult([phase |-> "done", current_index |-> next_idx],
                             files, <<>>)
             ELSE NodeResult([phase |-> "recommendation",
                              current_index |-> next_idx], files, <<>>)
        ELSE NodeResult([phase |-> "recommendation", current_index |-> idx],
                        files, <<>>)

\* a router for which only done ends the review
route_after_gate_done_only(state) ==
    IF Get(state, "phase", "") = "done" THEN END ELSE "present_recommendation"

route_after_gate(state) ==
    IF Get(state, "phase", "") \in {"aborted", "done"}
    THEN END
    ELSE "present_recommendation"

route_after_gate_review(state) ==
    IF Get(state, "phase", "") = "error" THEN END ELSE "present_recommendation"

(***************************************************************************)
(* hello_world.py: the single node of the hello graph.                     *)
(***************************************************************************)
HelloPrefix == <<"G","l","o","b","a","l"," ","A","g","e","n","t"," ","R","e","s","p","o","n","s","e",":"," ">>

\* a respond step that trims its input
hello_respond_stripped(state, files, env) ==
    NodeResult([output |-> HelloPrefix \o Strip(Get(state, "input", <<>>))], files, <<>>)

\* state.get("input", "") or ""
hello_respond(state, files, env) ==
    NodeResult([output |-> HelloPrefix \o Get(state, "input", <<>>)], files, <<>>)

(***************************************************************************)
(* principal_flow.py: planner, interfacer and executor of the flow without *)
(* review pauses.  A step that fails returns {"_error": ...}.              *)
(***************************************************************************)
GenFailure == <<"l","l","m"," ","f","a","i","l","e","d">>

\* the generator call of the named step raises in this call
PrincipalFails(env, node) == env.gen = node

principal_planner(state, files, env) ==
    IF PrincipalFails(env, "planner")
    THEN NodeResult([_error |-> GenFailure], files, <<>>)
    ELSE NodeResult(EmptyPatch,
                    [files EXCEPT ![OrCwd(state.project_root)][PLAN_FILE] =
                                      FileOf(env.out)],
                    <<>>)

principal_interfacer(state, files, env) ==
    IF ~files[OrCwd(state.project_root)][PLAN_FILE].exists
    THEN NodeResult([_error |-> PlanNotFound], files, <<>>)
    ELSE IF PrincipalFails(env, "interfacer")
    THEN NodeResult([_error |-> GenFailure], files, <<>>)
    ELSE NodeResult(EmptyPatch,
                    [files EXCEPT ![OrCwd(state.project_root)][INTERFACE_FILE] =
                                      FileOf(env.out)],
                    <<>>)

principal_executor(state, files, env) ==
    IF ~files[OrCwd(state.project_root)][INTERFACE_FILE].exists
    THEN NodeResult([_error |-> InterfaceNotFound], files, <<>>)
    ELSE IF PrincipalFails(env, "executor")
    THEN NodeResult([_error |-> GenFailure], files, <<>>)
    ELSE NodeResult(EmptyPatch,
                    [files EXCEPT ![OrCwd(state.project_root)][CODE_FILE] =
                                      FileOf(env.out),
                                  ![OrCwd(state.project_root)][TEST_FILE] =
                                      FileOf(env.out)],
                    <<>>)

(***************************************************************************)
(* The compiled graphs (build_graph): nodes, edges, conditional edges with *)
(* their candidate mappings, and the interrupt_before sets.                *)
(***************************************************************************)
\* the flows with review pauses
Kinds == {"auto", "interactive", "pr_review"}

Nodes(kind) ==
    CASE kind = "auto" ->
           {"planner", "plan_review", "interfacer", "interface_review", "executor"}
      [] kind = "interactive" -> {"assemble", "gate", "save"}
      [] kind = "pr_review" ->
           {"pull_data", "assemble_review_context", "gate_review",
            "present_recommendation", "gate"}
      [] kind = "hello" -> {"respond"}
      [] kind = "principal" -> {"planner", "interfacer", "executor"}

\* add_edge(START, ...)
EntryNode(kind) ==
    CASE kind = "auto" -> "planner"
      [] kind = "interactive" -> "assemble"
      [] kind = "pr_review" -> "pull_data"
      [] kind = "hello" -> "respond"
      [] kind = "principal" -> "planner"

\* a compilation that pauses the PR review before gate_review only
InterruptBeforeReviewOnly(kind) ==
    CASE kind = "auto" -> {"plan_review", "interface_review"}
      [] kind = "interactive" -> {"gate"}
      [] kind = "pr_review" -> {"gate_review"}
      [] kind = "hello" -> {}
      [] kind = "principal" -> {}

\* compile(interrupt_before=[...])
InterruptBefore(kind) ==
    CASE kind = "auto" -> {"plan_review", "interface_review"}
      [] kind = "interactive" -> {"gate"}
      [] kind = "pr_review" -> {"gate_review", "gate"}
      [] kind = "hello" -> {}
      [] kind = "principal" -> {}

\* nodes whose outgoing edge is conditional
Conditional(kind) ==
    CASE kind = "auto" -> {"plan_review", "interface_review"}
      [] kind = "interactive" -> {"gate", "save"}
      [] kind = "pr_review" -> {"gate_review", "gate"}
      [] kind = "hello" -> {}
      [] kind = "principal" -> {}

\* add_edge(a, b)
FixedEdge(kind, node) ==
    CASE kind = "auto" /\ node = "planner" -> "plan_review"
      [] kind = "auto" /\ node = "interfacer" -> "interface_review"
      [] kind = "auto" /\ node = "executor" -> END
      [] kind = "interactive" /\ node = "assemble" -> "gate"
      [] kind = "pr_review" /\ node = "pull_data" -> "assemble_review_context"
      [] kind = "pr_review" /\ node = "assemble_review_context" -> "gate_review"
      [] kind = "pr_review" /\ node = "present_recommendation" -> "gate"
      [] kind = "hello" /\ node = "respond" -> END
      [] kind = "principal" /\ node = "planner" -> "interfacer"
      [] kind = "principal" /\ node = "interfacer" -> "executor"
      [] kind = "principal" /\ node = "executor" -> END

\* add_conditional_edges(node, route, mapping): the routing function
Route(kind, node, state) ==
    CASE kind = "auto" /\ node = "plan_review" -> route_plan_review(state)
      [] kind = "auto" /\ node = "interface_review" -> route_interface_review(state)
      [] kind = "interactive" /\ node = "gate" -> route_gate(state)
      [] kind = "interactive" /\ node = "save" -> route_after_save(state)
      [] kind = "pr_review" /\ node = "gate_review" -> route_after_gate_review(state)
      [] kind = "pr_review" /\ node = "gate" -> route_after_gate(state)

\* add_conditional_edges(node, route, mapping): the candidate mapping
CandidateMap(kind, node) ==
    CASE kind = "auto" /\ node = "plan_review" ->
           [interfacer |-> "interfacer", planner |-> "planner"]
      [] kind = "auto" /\ node = "interface_review" ->
           [executor |-> "executor", interfacer |-> "interfacer"]
      [] kind = "interactive" /\ node = "gate" ->
           [save |-> "save", assemble |-> "assemble"]
      [] kind = "interactive" /\ node = "save" ->
           [assemble |-> "assemble", __end__ |-> END]
      [] kind = "pr_review" /\ node = "gate_review" ->
           [present_recommendation |-> "present_recommendation", __end__ |-> END]
      [] kind = "pr_review" /\ node = "gate" ->
           [present_recommendation |-> "present_recommendation", __end__ |-> END]

\* the node function registered by add_node
NodeFn(kind, node, state, files, env) ==
    CASE kind = "auto" /\ node = "planner" -> auto_planner(state, files, env)
      [] kind = "auto" /\ node = "plan_review" -> auto_plan_review(state, files, env)
      [] kind = "auto" /\ node = "interfacer" -> auto_interfacer(state, files, env)
      [] kind = "auto" /\ node = "interface_review" ->
           auto_interface_review(state, files, env)
      [] kind = "auto" /\ node = "executor" -> auto_executor(state, files, env)
      [] kind = "interactive" /\ node = "assemble" ->
           interactive_assemble(state, files, env)
      [] kind = "interactive" /\ node = "gate" -> interactive_gate(state, files, env)
      [] kind = "interactive" /\ node = "save" -> interactive_save(state, files, env)
      [] kind = "pr_review" /\ node = "pull_data" -> pull_data(state, files, env)
      [] kind = "pr_review" /\ node = "assemble_review_context" ->
           assemble_review_context(state, files, env)
      [] kind = "pr_review" /\ node = "gate_review" -> gate_review(state, files, env)
      [] kind = "pr_review" /\ node = "present_recommendation" ->
           present_recommendation(state, files, env)
      [] kind = "pr_review" /\ node = "gate" -> pr_gate(state, files, env)
      [] kind = "hello" /\ node = "respond" -> hello_respond(state, files, env)
      [] kind = "principal" /\ node = "planner" ->
           principal_planner(state, files, env)
      [] kind = "principal" /\ node = "interfacer" ->
           principal_interfacer(state, files, env)
      [] kind = "principal" /\ node = "executor" ->
           principal_executor(state, files, env)

\* the keys of the state schema the graph is built on (StateGraph(...))
StateKeys(kind) ==
    CASE kind = "auto" ->
           {"task_description", "project_root", "human_feedback", "phase"}
      [] kind = "interactive" ->
           {"task_description", "project_root", "phase", "context_bundle",
            "generated_content", "human_feedback"}
      [] kind = "pr_review" ->
           {"pr_url", "repo_path", "recommendations", "current_index",
            "human_feedback", "phase", "full_review_text",
            "current_recommendation_text", "review_context_bundle",
            "generated_review_content"}
      [] kind = "hello" -> {"input", "output"}
      [] kind = "principal" -> {"task_description", "project_root"}

\* the writes of a node's update: keys outside the schema have no channel
\* and are dropped
Updates(kind, patch) ==
    [k \in (DOMAIN patch) \cap StateKeys(kind) |-> patch[k]]

\* the node that runs after `node`, evaluated on the merged state
NextNode(kind, node, state) ==
    IF node = START THEN EntryNode(kind)
    ELSE IF node \in Conditional(kind)
    THEN CandidateMap(kind, node)[Route(kind, node, state)]
    ELSE FixedEdge(kind, node)

(***************************************************************************)
(* The run loop of graph.invoke.  A resumed run executes the node it was   *)
(* paused before; after that, and in a started run, the loop stops before  *)
(* any node of interrupt_before.  A node that raises leaves the state and  *)
(* position reached before it.                                             *)
(***************************************************************************)
\* what a run returns: the state and position reached, the file system,
\* the nodes executed and the generator calls made
RunResult(values, next, last, files, trace, gens, raised) ==
    [values |-> values, next |-> next, last |-> last, fs |-> files,
     trace |-> trace, gens |-> gens, raised |-> raised]

RECURSIVE RunLoop(_, _, _, _, _, _, _, _, _)
RECURSIVE RunFrom(_, _, _, _, _, _, _)
\* the loop continues after `node` has run and its update is merged
RunFrom(kind, merged, node, files, trace, gens, env) ==
    RunLoop(kind, merged, NextNode(kind, node, merged), node, files, trace, gens,
            FALSE, env)

\* the loop after node has returned r (or raised)
AfterNode(kind, values, node, last, trace, gens, env, r) ==
    IF r.raised
    THEN RunResult(values, node, last, r.fs, Append(trace, node), gens, TRUE)
    ELSE RunFrom(kind, Merge(values, Updates(kind, r.patch)), node, r.fs,
                 Append(trace, node),
                 gens \o r.gens, env)

RunLoop(kind, values, node, last, files, trace, gens, resuming, env) ==
    IF node = END \/ (node \in InterruptBefore(kind) /\ ~resuming)
    THEN RunResult(values, node, last, files, trace, gens, FALSE)
    ELSE AfterNode(kind, values, node, last, trace, gens, env,
                   NodeFn(kind, node, values, files, env))

\* a checkpoint: the state snapshot, the node to run next, and the node
\* that wrote last (update_state writes as that node)
Ckpt(kind, values, next, last) ==
    [kind |-> kind, values |-> values, next |-> next, last |-> last]

\* graph.update_state(config, patch): the patch is written as the node that
\* ran last, whose outgoing edge is evaluated again on the patched state
update_state(ckpt, patch) ==
    LET merged == Merge(ckpt.values, patch)
    IN  Ckpt(ckpt.kind, merged, NextNode(ckpt.kind, ckpt.last, merged), ckpt.last)

\* graph.invoke(initial, config)
InvokeStart(kind, initial, files, env) ==
    RunLoop(kind, initial, EntryNode(kind), START, files, <<>>, <<>>, FALSE, env)

\* an invoke that does not run the node it is paused before
InvokeResumeStopsAgain(ckpt, files, env) ==
    RunLoop(ckpt.kind, ckpt.values, ckpt.next, ckpt.last, files, <<>>, <<>>, FALSE, env)

\* graph.invoke(None, config) on a stored checkpoint
InvokeResume(ckpt, files, env) ==
    RunLoop(ckpt.kind, ckpt.values, ckpt.next, ckpt.last, files, <<>>, <<>>, TRUE, env)

\* the checkpoint build_graph(checkpointer) works on for a thread: the
\* stored one, or the empty checkpoint of the compiled graph
Open(kind, ckpt) == [ckpt EXCEPT !.kind = kind]

\* a call that raises before a checkpoint is written or a node is run
Rejected(ckpt, files) ==
    RunResult(ckpt.values, ckpt.next, ckpt.last, files, <<>>, <<>>, TRUE)

(***************************************************************************)
(* The checkpointer: a SqliteSaver on an sqlite3 connection.  Every put is *)
(* committed to the database file; connMem is what the open connection     *)
(* holds that is not in the file.                                          *)
(***************************************************************************)
Load(store, tid) ==
    IF store.mem[tid] # NoCkpt THEN store.mem[tid] ELSE store.db[tid]

\* the rows of the checkpoints table of a thread, in the order of their
\* checkpoint ids; the table is followed only where rows.on is set
RowsAfter(table, tid, ckpt) ==
    IF table.on THEN [table EXCEPT !.of[tid] = Append(@, ckpt)] ELSE table

\* a put that is left in the connection and never reaches the file
CheckpointPutUncommitted(store, tid, ckpt) ==
    [store EXCEPT !.mem[tid] = ckpt]

\* a put that reuses the checkpoint id of the latest row
CheckpointPutSameId(store, tid, ckpt) ==
    [store EXCEPT !.db[tid] = ckpt,
                  !.rows.of[tid] =
                      IF ~store.rows.on THEN @
                      ELSE IF @ = <<>> THEN <<ckpt>>
                      ELSE [@ EXCEPT ![Len(@)] = ckpt]]

\* SqliteSaver.put: the checkpoint is inserted under a new checkpoint id
\* and is the latest of its thread
CheckpointPut(store, tid, ckpt) ==
    [store EXCEPT !.db[tid] = ckpt, !.rows = RowsAfter(@, tid, ckpt)]

Store == [db |-> db, mem |-> connMem, rows |-> rows]

(***************************************************************************)
(* What the environment decides during one call.                           *)
(***************************************************************************)
Env(gen, out, pull, repoIsDir) ==
    [gen |-> gen, out |-> out, pull |-> pull, repoIsDir |-> repoIsDir]

\* no node of the call consults the environment
EnvNone == Env("ok", <<>>, "ok", TRUE)

\* the backend call of a generating step returns a text, or raises
EnvAuto == { Env(g, o, "ok", TRUE) : g \in {"ok", "raise"}, o \in GenOutputs }

\* pull_data succeeds or raises; the pulled repo path is a directory or not
EnvPR == { Env("ok", <<>>, p, d) : p \in {"ok", "raise"}, d \in BOOLEAN }

\* generated artifacts and review texts a caller may submit
PlanText == <<"#"," ","P","l","a","n">>

CodeText == <<"#","#"," ","M","O","D","U","L","E","\n","c","\n","#","#"," ","T","E","S","T","\n","t">>

ContentInputs == { <<>>, <<" ">>, PlanText, CodeText }

ReviewPlain == <<"f","i","x"," ","x">>

ReviewThree == <<"o","k","\n","#","#"," ","R","e","c","o","m","m","e","n","d","a","t","i","o","n","s"," ","\n","\n","1","."," ","a","\n"," ","2",")"," ","b","\n","b","2","\n","3","."," ","c">>

ReviewInputs == { <<>>, <<" ">>, ReviewPlain, ReviewThree }

PrUrlInputs == {"https://host/org/repo/pull/7"}

(***************************************************************************)
(* The record of the last call: its inputs, the checkpoint it found, the   *)
(* nodes it executed, the generator calls made, and what it returned.      *)
(* After a reconnect, view is what the closed checkpointer showed for each *)
(* thread.                                                                 *)
(***************************************************************************)
\* the callers that may be inside a resume at the same time, and the
\* position of a caller that is not
Procs == {"p1", "p2"}

Idle == [pc |-> "idle"]

NoCall ==
    [op |-> "init", kind |-> "none", tid |-> "", content |-> <<>>,
     feedback |-> <<>>, env |-> EnvNone, pre |-> NoCkpt, trace |-> <<>>,
     gens |-> <<>>, result |-> EmptyPatch, raised |-> FALSE, view |-> <<>>]

CallRecord(op, kind, tid, content, feedback, env, pre, r) ==
    [op |-> op, kind |-> kind, tid |-> tid, content |-> content,
     feedback |-> feedback, env |-> env, pre |-> pre, trace |-> r.trace,
     gens |-> r.gens, result |-> r.values, raised |-> r.raised, view |-> <<>>]

\* the checkpoint a finished run leaves
CkptOf(kind, r) == Ckpt(kind, r.values, r.next, r.last)

\* the store a call leaves: a call that raised before it ran a node has
\* written nothing
StoreAfter(kind, tid, r) ==
    IF r.raised /\ r.trace = <<>>
    THEN Store
    ELSE CheckpointPut(Store, tid, CkptOf(kind, r))

\* the next store is the given one
Stored(store) ==
    /\ db' = store.db
    /\ connMem' = store.mem
    /\ rows' = store.rows

\* effects of a call on thread tid, r being the run it made
Finish(op, kind, tid, content, feedback, env, pre, r) ==
    /\ Stored(StoreAfter(kind, tid, r))
    /\ fs' = r.fs
    /\ call' = CallRecord(op, kind, tid, content, feedback, env, pre, r)
    /\ UNCHANGED inflight

(***************************************************************************)
(* plan_auto.py: start_auto_plan / resume_auto_plan                        *)
(***************************************************************************)
start_auto_plan(tid, task_description, project_root, env) ==
    LET initial == [task_description |-> task_description,
                    project_root |-> OrCwd(project_root),
                    human_feedback |-> <<>>,
                    phase |-> "planning"]
        r == InvokeStart("auto", initial, fs, env)
    IN  /\ Load(Store, tid) = NoCkpt
        /\ Finish("start", "auto", tid, <<>>, <<>>, env, NoCkpt, r)

AutoResumeRun(ckpt, human_feedback, files, env) ==
    InvokeResume(update_state(Open("auto", ckpt), [human_feedback |-> human_feedback]),
                 files, env)

resume_auto_plan(tid, human_feedback, env) ==
    LET pre == Load(Store, tid)
    IN  /\ pre.kind \in {"auto", "none"}
        /\ Finish("resume", "auto", tid, <<>>, human_feedback, env, pre,
                  AutoResumeRun(pre, human_feedback, fs, env))

(***************************************************************************)
(* plan_interactive.py: start_interactive_plan / resume_interactive_plan   *)
(***************************************************************************)
start_interactive_plan(tid, task_description, project_root) ==
    LET initial == [task_description |-> task_description,
                    project_root |-> OrCwd(project_root),
                    phase |-> "plan",
                    context_bundle |-> EmptyBundle,
                    generated_content |-> <<>>,
                    human_feedback |-> <<>>]
        r == InvokeStart("interactive", initial, fs, EnvNone)
    IN  /\ Load(Store, tid) = NoCkpt
        /\ Finish("start", "interactive", tid, <<>>, <<>>, EnvNone, NoCkpt, r)

\* an update that also rewinds the session to its first item
UpdateOfRewinds(contentKey, content, feedback) ==
    Merge(IF content # <<>> THEN [k \in {contentKey} |-> content] ELSE EmptyPatch,
          IF feedback # <<>>
          THEN [human_feedback |-> feedback, current_index |-> 0]
          ELSE EmptyPatch)

\* the update dict built from the arguments that are not empty
UpdateOf(contentKey, content, feedback) ==
    Merge(IF content # <<>> THEN [k \in {contentKey} |-> content] ELSE EmptyPatch,
          IF feedback # <<>> THEN [human_feedback |-> feedback] ELSE EmptyPatch)

InteractiveResumeRun(ckpt, content, feedback, files) ==
    InvokeResume(update_state(Open("interactive", ckpt),
                              UpdateOf("generated_content", content, feedback)),
                 files, EnvNone)

\* the outcomes of a resume: on a thread without a checkpoint the empty
\* update {} is written as the input of the graph, which the installed
\* langgraph either accepts or refuses (InvalidUpdateError)
InteractiveResumeRuns(ckpt, content, feedback, files) ==
    {InteractiveResumeRun(ckpt, content, feedback, files)}
      \cup IF ckpt.kind = "none" /\ content = <<>> /\ feedback = <<>>
           THEN {Rejected(ckpt, files)}
           ELSE {}

resume_interactive_plan(tid, content, feedback) ==
    LET pre == Load(Store, tid)
    IN  /\ pre.kind \in {"interactive", "none"}
        /\ \E r \in InteractiveResumeRuns(pre, content, feedback, fs) :
              Finish("resume", "interactive", tid, content, feedback, EnvNone, pre, r)

(***************************************************************************)
(* pr_review.py: start_pr_review / resume_pr_review                        *)
(***************************************************************************)
start_pr_review(tid, pr_url, env) ==
    LET initial == [pr_url |-> pr_url,
                    repo_path |-> "",
                    recommendations |-> <<>>,
                    current_index |-> 0,
                    human_feedback |-> <<>>,
                    phase |-> "pull",
                    full_review_text |-> <<>>,
                    current_recommendation_text |-> <<>>,
                    review_context_bundle |-> EmptyReviewBundle,
                    generated_review_content |-> <<>>]
        r == InvokeStart("pr_review", initial, fs, env)
    IN  /\ Load(Store, tid) = NoCkpt
        /\ Finish("start", "pr_review", tid, <<>>, <<>>, env, NoCkpt, r)

\* invoke(None) on a thread without a checkpoint has no input to run on
\* (EmptyInputError)
PRResumeRun(ckpt, content, human_feedback, files) ==
    LET update == UpdateOf("generated_review_content", content, human_feedback)
    IN  IF update # EmptyPatch
        THEN InvokeResume(update_state(Open("pr_review", ckpt), update), files, EnvNone)
        ELSE IF ckpt.kind = "none" THEN Rejected(ckpt, files)
        ELSE InvokeResume(ckpt, files, EnvNone)

resume_pr_review(tid, content, human_feedback) ==
    LET pre == Load(Store, tid)
    IN  /\ pre.kind \in {"pr_review", "none"}
        /\ Finish("resume", "pr_review", tid, content, human_feedback, EnvNone, pre,
                  PRResumeRun(pre, content, human_feedback, fs))

(***************************************************************************)
(* verify_plan_interactive.verify_cross_session: the connection is closed  *)
(* and a fresh checkpointer is opened on the same database file.           *)
(***************************************************************************)
Reconnect ==
    /\ call.op # "reconnect"
    /\ connMem' = [t \in Threads |-> NoCkpt]
    /\ call' = [NoCall EXCEPT !.op = "reconnect",
                            !.view = [t \in Threads |-> Load(Store, t)]]
    /\ UNCHANGED <<db, fs, inflight, rows>>

(***************************************************************************)
(* Specification: one session of any of the three flows.                   *)
(***************************************************************************)
Init ==
    /\ db = [t \in Threads |-> NoCkpt]
    /\ connMem = [t \in Threads |-> NoCkpt]
    /\ fs = [r \in Roots |-> [f \in Files |-> NoFile]]
    /\ call = NoCall
    /\ inflight = [p \in Procs |-> Idle]
    /\ rows = [on |-> FALSE, of |-> [t \in Threads |-> <<>>]]

StartAuto ==
    \E tid \in OneThread, task \in TaskInputs, root \in RootInputs, env \in EnvAuto :
        start_auto_plan(tid, task, root, env)

ResumeAuto ==
    \E tid \in OneThread, feedback \in AutoFeedbackInputs, env \in EnvAuto :
        resume_auto_plan(tid, feedback, env)

StartInteractive ==
    \E tid \in OneThread, task \in TaskInputs, root \in RootInputs :
        start_interactive_plan(tid, task, root)

ResumeInteractive ==
    \E tid \in OneThread, content \in ContentInputs, feedback \in InteractiveFeedbackInputs :
        resume_interactive_plan(tid, content, feedback)

StartPR ==
    \E tid \in OneThread, url \in PrUrlInputs, env \in EnvPR :
        start_pr_review(tid, url, env)

ResumePR ==
    \E tid \in OneThread, content \in ReviewInputs, feedback \in PRFeedbackInputs :
        resume_pr_review(tid, content, feedback)

Next ==
    \/ StartAuto
    \/ ResumeAuto
    \/ StartInteractive
    \/ ResumeInteractive
    \/ StartPR
    \/ ResumePR
    \/ Reconnect

Spec == Init /\ [][Next]_vars

(***************************************************************************)
(* Specifications of one flow each.                                        *)
(***************************************************************************)
NextAuto == StartAuto \/ ResumeAuto \/ Reconnect

SpecAuto == Init /\ [][NextAuto]_vars

NextInteractive == StartInteractive \/ ResumeInteractive \/ Reconnect

SpecInteractive == Init /\ [][NextInteractive]_vars

NextPR == StartPR \/ ResumePR \/ Reconnect

SpecPR == Init /\ [][NextPR]_vars

(***************************************************************************)
(* Properties.                                                             *)
(***************************************************************************)
\* the last call was a start / a resume of the given flow that returned
Started(kind) == call.op = "start" /\ call.kind = kind /\ ~call.raised

Resumed(kind) == call.op = "resume" /\ call.kind = kind /\ ~call.raised

\* the checkpoint the last call found was paused before `node` in `phase`
PausedAt(node, phase) ==
    call.pre.next = node /\ call.pre.values.phase = phase

\* feedback as the routing functions read it
Normal(feedback) == Lower(Strip(feedback))

\* C1: in the auto planning flow, when the generating step of the call
\* succeeds, start returns phase plan_review, a resume with 'approved' at
\* plan_review returns interface_review, and a resume with 'approved' at
\* interface_review returns done.
C1_AutoHappyPath ==
    call.env.gen = "ok" =>
        /\ Started("auto") => call.result.phase = "plan_review"
        /\ (Resumed("auto") /\ call.feedback = Approved
                /\ PausedAt("plan_review", "plan_review"))
             => call.result.phase = "interface_review"
        /\ (Resumed("auto") /\ call.feedback = Approved
                /\ PausedAt("interface_review", "interface_review"))
             => call.result.phase = "done"

C1_Witness ==
    /\ Resumed("auto") /\ call.feedback = Approved /\ call.env.gen = "ok"
    /\ PausedAt("interface_review", "interface_review")
    /\ call.result.phase = "done"
    /\ call.trace = <<"interface_review", "executor">>

\* C2: in the auto planning flow with the generating step succeeding, a
\* resume at plan_review (interface_review) whose trimmed, lower-cased
\* feedback is not 'approved' re-runs planner (interfacer) and returns
\* paused at the same review phase; the phase moves on only when that
\* feedback is 'approved'.
C2_OnlyApprovalAdvances ==
    \A review \in {"plan_review", "interface_review"} :
        (Resumed("auto") /\ call.env.gen = "ok" /\ PausedAt(review, review)) =>
            LET generator == IF review = "plan_review" THEN "planner" ELSE "interfacer"
                onward == IF review = "plan_review" THEN "interface_review" ELSE "done"
            IN  IF Normal(call.feedback) # Approved
                THEN /\ call.result.phase = review
                     /\ call.trace = <<review, generator>>
                     /\ db[call.tid].next = review
                ELSE call.result.phase = onward

C2_Witness ==
    /\ Resumed("auto") /\ call.env.gen = "ok"
    /\ PausedAt("interface_review", "interface_review")
    /\ call.feedback = RevisionNote
    /\ call.trace = <<"interface_review", "interfacer">>
    /\ call.result.phase = "interface_review"

\* the phase that follows a phase of the interactive flow
NextPhase(phase) ==
    CASE phase = "plan" -> "interface"
      [] phase = "interface" -> "code"
      [] phase = "code" -> "done"

\* C3: in the interactive flow, start returns phase plan, and each resume
\* with non-blank content and no feedback moves the phase one step along
\* plan -> interface -> code -> done.
C3_InteractiveAdvancesByOne ==
    /\ call.op = "start" /\ call.kind = "interactive"
         => ~call.raised /\ call.result.phase = "plan"
    /\ (call.op = "resume" /\ call.kind = "interactive"
            /\ Strip(call.content) # <<>> /\ call.feedback = <<>>
            /\ Get(call.pre.values, "phase", "") \in {"plan", "interface", "code"})
         => /\ ~call.raised
            /\ call.result.phase = NextPhase(call.pre.values.phase)

C3_Witness ==
    /\ Resumed("interactive") /\ call.content = CodeText /\ call.feedback = <<>>
    /\ call.pre.values.phase = "code"
    /\ call.result.phase = "done"

\* C4: in the interactive flow, a resume at a pause with feedback and no
\* content keeps the phase, returns a context bundle of that phase holding
\* the feedback, and leaves the session paused before gate, from where a
\* resume with content advances the phase.
C4_FeedbackOnlyStays ==
    (call.op = "resume" /\ call.kind = "interactive"
        /\ call.content = <<>> /\ call.feedback # <<>>
        /\ call.pre.next = "gate") =>
        /\ ~call.raised
        /\ call.result.phase = call.pre.values.phase
        /\ call.result.context_bundle.kind = call.pre.values.phase
        /\ call.result.context_bundle.feedback = call.feedback
        /\ db[call.tid].next = "gate"
        /\ InteractiveResumeRun(db[call.tid], PlanText, <<>>, fs).values.phase
             = NextPhase(call.pre.values.phase)

C4_Witness ==
    /\ Resumed("interactive") /\ call.content = <<>> /\ call.feedback = RevisionNote
    /\ call.pre.next = "gate" /\ call.pre.values.phase = "interface"
    /\ call.result.phase = "interface"
    /\ call.result.context_bundle.feedback = RevisionNote

\* C5: after the checkpointer is closed and a fresh one is opened on the
\* same database, every session is found as the closed one showed it, and
\* each resume of an interactive session gives the result it would have
\* given through the closed checkpointer.
C5_ReopenIsTransparent ==
    \A tid \in Threads :
        (call.op = "reconnect" /\ call.view[tid].kind = "interactive") =>
            /\ Load(Store, tid).kind = "interactive"
            /\ \A content \in ContentInputs, feedback \in InteractiveFeedbackInputs :
                 InteractiveResumeRun(Load(Store, tid), content, feedback, fs)
                   = InteractiveResumeRun(call.view[tid], content, feedback, fs)

C5_Witness ==
    /\ call.op = "reconnect"
    /\ call.view["A"].kind = "interactive"
    /\ Get(call.view["A"].values, "phase", "") = "plan"
    /\ InteractiveResumeRun(Load(Store, "A"), PlanText, <<>>, fs).values.phase
         = "interface"

\* C6: once the phase of a session is done, a resume with any patch
\* executes no node, calls no generator, and returns phase done.
C6_DoneIsFinal ==
    (call.op = "resume" /\ Get(call.pre.values, "phase", "") = "done") =>
        /\ ~call.raised
        /\ call.trace = <<>>
        /\ call.gens = <<>>
        /\ call.result.phase = "done"

C6_Witness ==
    /\ call.op = "resume" /\ call.kind = "interactive"
    /\ Get(call.pre.values, "phase", "") = "done"
    /\ call.content = PlanText
    /\ call.result.phase = "done"

\* C7: a start executes no interrupt-point node; a resume of a paused
\* session executes the node it was paused before, first, and no other
\* interrupt-point node; a call that returns leaves the session before an
\* interrupt-point node or at the end of the graph.
C7_OnePausePerCall ==
    call.op \in {"start", "resume"} =>
        /\ \A i \in 1..Len(call.trace) :
             call.trace[i] \in InterruptBefore(call.kind) =>
                 i = 1 /\ call.op = "resume" /\ call.trace[1] = call.pre.next
        /\ (call.op = "resume" /\ call.pre.next \in InterruptBefore(call.kind))
             => call.trace # <<>> /\ call.trace[1] = call.pre.next
        /\ ~call.raised =>
             db[call.tid].next \in InterruptBefore(call.kind) \cup {END}

C7_Witness ==
    /\ Resumed("pr_review")
    /\ call.pre.next = "gate_review"
    /\ call.trace = <<"gate_review", "present_recommendation">>
    /\ db[call.tid].next = "gate"

\* the last call resumed a PR review paused on a recommendation (index
\* within the list)
OnRecommendation ==
    /\ call.op = "resume" /\ call.kind = "pr_review"
    /\ call.pre.next = "gate"
    /\ call.pre.values.current_index < Len(call.pre.values.recommendations)

\* C8: a resume with feedback abort of a PR review paused on recommendation
\* i of n returns phase aborted with current_index = i and ends the flow,
\* whatever n - i is.
C8_AbortEnds ==
    (OnRecommendation /\ Normal(call.feedback) = Abort) =>
        /\ ~call.raised
        /\ call.result.phase = "aborted"
        /\ call.result.current_index = call.pre.values.current_index
        /\ call.trace = <<"gate">>
        /\ db[call.tid].next = END

C8_Witness ==
    /\ OnRecommendation /\ call.feedback = Abort
    /\ Len(call.pre.values.recommendations) = 3
    /\ call.pre.values.current_index = 0
    /\ call.result.phase = "aborted"

\* C9: a resume with feedback abort at any pause point of a PR review,
\* the first pause (before gate_review) included, returns phase aborted.
C9_AbortAtAnyPause ==
    (Resumed("pr_review") /\ Normal(call.feedback) = Abort
        /\ call.pre.next \in InterruptBefore("pr_review"))
      => call.result.phase = "aborted"

\* C10: a resume with an approval token of a PR review paused on
\* recommendation i of n returns phase recommendation with current_index
\* i + 1 and that recommendation's text when i + 1 < n, and phase done when
\* i + 1 = n.
C10_ApproveAdvancesByOne ==
    (OnRecommendation /\ Normal(call.feedback) \in ApproveTokens) =>
        LET i == call.pre.values.current_index
            recs == call.pre.values.recommendations
        IN  /\ ~call.raised
            /\ call.result.recommendations = recs
            /\ IF i + 1 < Len(recs)
               THEN /\ call.result.phase = "recommendation"
                    /\ call.result.current_index = i + 1
                    /\ call.result.current_recommendation_text = recs[i + 2]
                    /\ db[call.tid].next = "gate"
               ELSE /\ call.result.phase = "done"
                    /\ db[call.tid].next = END

C10_Witness ==
    /\ OnRecommendation /\ call.feedback = ApprovedPadded
    /\ Len(call.pre.values.recommendations) = 3
    /\ call.pre.values.current_index = 1
    /\ call.result.phase = "recommendation"
    /\ call.result.current_index = 2
    /\ call.result.current_recommendation_text = <<"c">>

\* C11: a resume of a PR review paused on a recommendation, with feedback
\* (the empty string included) that is neither an approval token nor abort,
\* returns phase recommendation with current_index unchanged, whatever
\* feedback earlier resumes supplied.
C11_OtherFeedbackStays ==
    (OnRecommendation /\ Normal(call.feedback) \notin ApproveTokens \cup {Abort}) =>
        /\ ~call.raised
        /\ call.result.phase = "recommendation"
        /\ call.result.current_index = call.pre.values.current_index

\* C12: a resume of a paused interactive session with non-empty content
\* and non-empty feedback executes no node and leaves the session as it
\* found it: phase unchanged, no artifact written, feedback not stored.
C12_BothArgumentsRejected ==
    (call.op = "resume" /\ call.kind = "interactive"
        /\ call.content # <<>> /\ call.feedback # <<>>
        /\ call.pre.next = "gate") =>
        /\ call.trace = <<>>
        /\ db[call.tid] = call.pre

\* C13: a resume (auto, interactive or PR review) of a thread that has no
\* checkpoint executes no node and stores no checkpoint for that thread.
C13_UnstartedResumeRejected ==
    (call.op = "resume" /\ call.pre = NoCkpt) =>
        /\ call.trace = <<>>
        /\ db[call.tid] = NoCkpt

(***************************************************************************)
(* Two callers inside resume_auto_plan at the same time.  update_state and *)
(* invoke(None) are two calls on the shared checkpointer; each is atomic   *)
(* under the SqliteSaver lock, and nothing holds the thread between them.  *)
(* A caller keeps what its update_state wrote and what its invoke ran on.  *)
(***************************************************************************)
InResume(tid, human_feedback, wrote) ==
    [pc |-> "updated", tid |-> tid, feedback |-> human_feedback, wrote |-> wrote]

Returned(entry, ran) ==
    [pc |-> "returned", tid |-> entry.tid, feedback |-> entry.feedback,
     wrote |-> entry.wrote, ran |-> ran]

\* graph.update_state(config, {"human_feedback": human_feedback})
resume_auto_update(p, tid, human_feedback) ==
    /\ inflight[p].pc # "updated"
    /\ Load(Store, tid).kind \in {"auto", "none"}
    /\ Stored(CheckpointPut(Store, tid,
              update_state(Open("auto", Load(Store, tid)),
                           [human_feedback |-> human_feedback])))
    /\ inflight' = [inflight EXCEPT
                      ![p] = InResume(tid, human_feedback, Load(Store', tid))]
    /\ UNCHANGED <<fs, call>>

\* the run of graph.invoke(None, config) on the latest checkpoint
RaceRan(p, env, pre, r) ==
    /\ Stored(StoreAfter("auto", inflight[p].tid, r))
    /\ fs' = r.fs
    /\ call' = CallRecord("resume", "auto", inflight[p].tid, <<>>,
                          inflight[p].feedback, env, pre, r)
    /\ inflight' = [inflight EXCEPT ![p] = Returned(@, pre)]

\* result = graph.invoke(None, config=config)
resume_auto_invoke(p, env) ==
    /\ inflight[p].pc = "updated"
    /\ RaceRan(p, env, Load(Store, inflight[p].tid),
               InvokeResume(Load(Store, inflight[p].tid), fs, env))

RaceFeedbackInputs == { RevisionNote, Approved }

RaceUpdate ==
    \E p \in Procs, tid \in OneThread, feedback \in RaceFeedbackInputs :
        resume_auto_update(p, tid, feedback)

RaceInvoke ==
    \E p \in Procs, env \in EnvAuto : resume_auto_invoke(p, env)

NextRace == StartAuto \/ RaceUpdate \/ RaceInvoke

SpecRace == Init /\ [][NextRace]_vars

\* C14: two resumes of one thread are serialized: the paused step a
\* resume executes runs on the checkpoint that resume's own update_state
\* wrote, with that resume's feedback, as it does when the resumes run one
\* after the other.
C14_ResumesSerialized ==
    \A p \in Procs :
        inflight[p].pc = "returned" =>
            /\ inflight[p].ran = inflight[p].wrote
            /\ inflight[p].ran.values.human_feedback = inflight[p].feedback

(***************************************************************************)
(* Two sessions side by side: thread ids A and B, both started with the    *)
(* same directory as project root.                                         *)
(***************************************************************************)
SharedRootInputs == { "proj" }

TwoContentInputs == { <<>>, PlanText, CodeText }

TwoFeedbackInputs == { <<>>, RevisionNote }

StartInteractiveTwo ==
    \E tid \in Threads, task \in TaskInputs, root \in SharedRootInputs :
        start_interactive_plan(tid, task, root)

ResumeInteractiveTwo ==
    \E tid \in Threads, content \in TwoContentInputs, feedback \in TwoFeedbackInputs :
        resume_interactive_plan(tid, content, feedback)

NextTwo == StartInteractiveTwo \/ ResumeInteractiveTwo

SpecTwo == Init /\ [][NextTwo]_vars

\* what the resumes of a session would return, for every input
ResumeOutcomes(ckpt, files) ==
    [content \in TwoContentInputs, feedback \in TwoFeedbackInputs |->
        InteractiveResumeRun(ckpt, content, feedback, files).values]

\* C15: a call on one session leaves the state of every other session
\* unchanged, and leaves unchanged what each resume of the other session
\* returns (phase, context bundle), also when the sessions share a project
\* root.
C15_SessionsIndependent ==
    [][\A u \in Threads :
          (call'.tid # u /\ db[u].kind = "interactive") =>
              /\ db'[u] = db[u]
              /\ ResumeOutcomes(db'[u], fs') = ResumeOutcomes(db[u], fs)]_vars

(***************************************************************************)
(* The checkpoints table followed row by row, for the first MaxRows        *)
(* checkpoints of an interactive session.                                  *)
(***************************************************************************)
InitRows ==
    /\ db = [t \in Threads |-> NoCkpt]
    /\ connMem = [t \in Threads |-> NoCkpt]
    /\ fs = [r \in Roots |-> [f \in Files |-> NoFile]]
    /\ call = NoCall
    /\ inflight = [p \in Procs |-> Idle]
    /\ rows = [on |-> TRUE, of |-> [t \in Threads |-> <<>>]]

RowsLeft == \A t \in Threads : Len(rows.of[t]) < MaxRows

StartRows == RowsLeft /\ StartInteractive

ResumeRows == RowsLeft /\ ResumeInteractive

NextRows == StartRows \/ ResumeRows \/ Reconnect

SpecRows == InitRows /\ [][NextRows]_vars

\* s is an initial part of t
IsPrefix(s, t) == Len(s) <= Len(t) /\ SubSeq(t, 1, Len(s)) = s

\* C16: the checkpoints a session's calls write form a growing sequence:
\* a call that writes adds rows after the ones there and leaves those as
\* they are, the latest checkpoint is the last row, and a resume starts
\* from the row that was last when it began.
C16_CheckpointsOnlyAppended ==
    [][\A t \in Threads :
          /\ IsPrefix(rows.of[t], rows'.of[t])
          /\ db'[t] # db[t] => Len(rows'.of[t]) > Len(rows.of[t])
          /\ rows'.of[t] # <<>> => rows'.of[t][Len(rows'.of[t])] = db'[t]
          /\ (call'.op = "resume" /\ call'.tid = t /\ rows.of[t] # <<>>)
                => call'.pre = rows.of[t][Len(rows.of[t])]]_vars

C16_Witness ==
    /\ rows.on /\ Len(rows.of["A"]) = 3
    /\ call.op = "resume" /\ call.tid = "A"
    /\ call.pre = rows.of["A"][2]
    /\ rows.of["A"][3] = db["A"]
    /\ Get(rows.of["A"][1].values, "phase", "") = "plan"
    /\ Get(rows.of["A"][3].values, "phase", "") = "code"

\* the node a call of the auto flow executed last
LastNode == call.trace[Len(call.trace)]

\* the generating step of the last call failed: its state had no project
\* root, its prerequisite artifact was missing, or the backend call raised
StepFailed ==
    /\ call.kind = "auto" /\ call.op \in {"start", "resume"} /\ call.trace # <<>>
    /\ LastNode \in {"planner", "interfacer", "executor"}
    /\ \/ "project_root" \notin DOMAIN call.result
       \/ call.env.gen = "raise" /\ call.gens # <<>>
       \/ /\ "project_root" \in DOMAIN call.result
          /\ \/ /\ LastNode = "interfacer"
                /\ ~fs[ensure_project_path(call.result.project_root)][PLAN_FILE].exists
             \/ /\ LastNode = "executor"
                /\ ~fs[ensure_project_path(call.result.project_root)][INTERFACE_FILE].exists

\* the descriptions a failed node returns
ErrorTexts(node) ==
    CASE node = "planner" -> {PlannerError}
      [] node = "interfacer" -> {PlanNotFound, InterfacerError}
      [] node = "executor" -> {InterfaceNotFound, ExecutorError}

\* C17: in the auto flow a generating step that fails (its body raises or
\* its prerequisite artifact is missing) raises nothing to the caller: the
\* call returns phase error with the description of the failure, and the
\* state returned is the checkpoint a later call loads.
C17_StepErrorsAreReturned ==
    StepFailed =>
        /\ ~call.raised
        /\ call.result.phase = "error"
        /\ call.result.human_feedback \in ErrorTexts(LastNode)
        /\ Load(Store, call.tid).values = call.result

C17_Witness ==
    /\ StepFailed /\ Resumed("auto")
    /\ PausedAt("interface_review", "interface_review")
    /\ call.env.gen = "raise"
    /\ call.trace = <<"interface_review", "executor">>
    /\ call.result.phase = "error"
    /\ call.result.human_feedback = ExecutorError

\* C18: an auto session whose phase is error stays errored: a resume runs
\* no generating step (planner, interfacer, executor) and returns phase
\* error.
C18_ErrorIsSticky ==
    (call.op = "resume" /\ call.kind = "auto"
        /\ Get(call.pre.values, "phase", "") = "error") =>
        /\ \A i \in 1..Len(call.trace) :
             call.trace[i] \notin {"planner", "interfacer", "executor"}
        /\ call.gens = <<>>
        /\ call.result.phase = "error"

\* C19: a start of a PR review in which pull_data fails returns phase
\* error with the description of the failure.
C19_PullFailureIsReturned ==
    (call.op = "start" /\ call.kind = "pr_review" /\ call.env.pull = "raise") =>
        /\ ~call.raised
        /\ call.result.phase = "error"
        /\ call.result.full_review_text = PullError

(***************************************************************************)
(* mcp_bridge.py: the text the plan_auto_start tool answers with.          *)
(***************************************************************************)
PlanWritten == "Plan written to"

AutoPlanError == "Auto plan error"

\* the result of _start_auto_plan is not looked at: the success text is
\* returned unless the call raised
plan_auto_start(raised, result) ==
    IF raised THEN AutoPlanError ELSE PlanWritten

\* C20: the answer of plan_auto_start reports an error, not the text
\* 'Plan written to ...', whenever the planner step of the start ended
\* with phase error.
C20_StartReportsPlannerError ==
    (call.op = "start" /\ call.kind = "auto" /\ call.result.phase = "error") =>
        plan_auto_start(call.raised, call.result) # PlanWritten

(***************************************************************************)
(* mcp_bridge.py: the text the pr_review_start tool answers with, as the   *)
(* heading it opens with, the number of recommendations it names and       *)
(* whether the thread id is in it.                                         *)
(***************************************************************************)
PRStartError == "PR review start error"

PRReviewError == "PR review error"

NoRecommendations == "No recommendations produced"

RecommendationOne == "Recommendation 1 of"

Answer(head, n, thread_id) == [head |-> head, n |-> n, thread_id |-> thread_id]

\* the branch taken once the call returned without raising
PRStartAnswer(phase, recommendations) ==
    IF phase = "error" THEN Answer(PRReviewError, 0, TRUE)
    ELSE IF recommendations = <<>> THEN Answer(NoRecommendations, 0, TRUE)
    ELSE Answer(RecommendationOne, Len(recommendations), TRUE)

pr_review_start(raised, result) ==
    IF raised THEN Answer(PRStartError, 0, FALSE)
    ELSE PRStartAnswer(Get(result, "phase", ""),
                       Get(result, "recommendations", <<>>))

\* the pull and the context assembly of the call both succeeded
PullAndContextSucceeded ==
    /\ call.op = "start" /\ call.kind = "pr_review"
    /\ call.env.pull = "ok" /\ call.env.repoIsDir

\* C21: after a pr_review_start whose pull and context assembly succeed,
\* the answer presents recommendation 1 of N, N >= 1, with the thread id.
C21_StartPresentsFirst ==
    PullAndContextSucceeded =>
        /\ pr_review_start(call.raised, call.result).head = RecommendationOne
        /\ pr_review_start(call.raised, call.result).n >= 1
        /\ pr_review_start(call.raised, call.result).thread_id

(***************************************************************************)
(* The routing functions against the candidate mappings of build_graph.    *)
(***************************************************************************)
\* feedback in any case, beside the feedback the callers give
ApprovedUpper == <<"A","P","P","R","O","V","E","D">>

RouteFeedbacks == AutoFeedbackInputs \cup PRFeedbackInputs \cup {ApprovedUpper}

\* the state with the key absent
Without(state, key) == [k \in (DOMAIN state) \ {key} |-> state[k]]

\* the name the routing function of `node` returns is declared for its edge
Declared(kind, node, state) ==
    Route(kind, node, state) \in DOMAIN CandidateMap(kind, node)

DeclaredForAll(kind, node, state) ==
    /\ Declared(kind, node, Without(state, "human_feedback"))
    /\ \A f \in RouteFeedbacks :
          Declared(kind, node, Merge(state, [human_feedback |-> f]))

\* C22: on every stored session state, with the feedback absent, empty,
\* unrecognized or in any case, each routing function of the session's
\* graph returns a name of the candidate mapping declared for its
\* conditional edge.
C22_RoutesAreDeclared ==
    \A t \in Threads :
        (db[t].kind # "none" /\ "phase" \in DOMAIN db[t].values) =>
            \A node \in Conditional(db[t].kind) :
                DeclaredForAll(db[t].kind, node, db[t].values)

\* a resume with unrecognized feedback whose run began at a conditional
\* node, so that its routing function was evaluated
C22_Witness ==
    /\ call.op = "resume" /\ ~call.raised
    /\ call.feedback = RevisionNote
    /\ call.trace # <<>>
    /\ call.trace[1] \in Conditional(call.kind)
    /\ "phase" \in DOMAIN db[call.tid].values

(***************************************************************************)
(* The update dict a resume function hands to graph.update_state.          *)
(***************************************************************************)
CallerPatch(kind, content, feedback) ==
    CASE kind = "auto" -> [human_feedback |-> feedback]
      [] kind = "interactive" -> UpdateOf("generated_content", content, feedback)
      [] kind = "pr_review" ->
           UpdateOf("generated_review_content", content, feedback)

PatchFields == {"human_feedback", "generated_content", "generated_review_content"}

ControlFields == {"phase", "current_index", "recommendations"}

Restrict(state, keys) == [k \in keys \cap DOMAIN state |-> state[k]]

\* the state graph.update_state leaves agrees with the one before on keys
PatchKeeps(kind, pre, patch, keys) ==
    Restrict(update_state(Open(kind, pre), patch).values, keys)
        = Restrict(pre.values, keys)

\* C23: the patch of a resume call is written only into human_feedback,
\* generated_content and generated_review_content; phase, current_index
\* and recommendations are not set by it and are, after a call in which no
\* step ran, what they were before the call.
C23_PatchSetsNoControlField ==
    (call.op = "resume" /\ call.kind \in Kinds) =>
        /\ DOMAIN CallerPatch(call.kind, call.content, call.feedback)
               \subseteq PatchFields
        /\ PatchKeeps(call.kind, call.pre,
                      CallerPatch(call.kind, call.content, call.feedback),
                      ControlFields)
        /\ call.trace = <<>> =>
               Restrict(call.result, ControlFields)
                   = Restrict(call.pre.values, ControlFields)

\* a resume on a started session whose patch is not empty and in which a
\* step changed the phase
C23_Witness ==
    /\ call.op = "resume" /\ ~call.raised
    /\ CallerPatch(call.kind, call.content, call.feedback) # EmptyPatch
    /\ "phase" \in DOMAIN call.pre.values
    /\ call.trace # <<>>
    /\ call.result.phase # call.pre.values.phase

(***************************************************************************)
(* Revision rounds of the auto flow, counted on the checkpoints the        *)
(* session has written: after the start and k revisions the thread holds   *)
(* k + 1 rows, each paused before plan_review.                             *)
(***************************************************************************)
MaxRounds == 3

RoundsLeft == \A t \in Threads : Len(rows.of[t]) < MaxRounds + 2

StartRounds == RoundsLeft /\ StartAuto

ResumeRounds == RoundsLeft /\ ResumeAuto

NextRounds == StartRounds \/ ResumeRounds

SpecRounds == InitRows /\ [][NextRounds]_vars

\* every row is a pause before plan_review left by a planner that succeeded
OnlyPlanRounds(history) ==
    /\ history # <<>>
    /\ \A i \in 1..Len(history) :
          /\ history[i].next = "plan_review"
          /\ Get(history[i].values, "phase", "") # "error"

\* the call of the step is a resume of thread t after Len - 1 revisions
ResumeAfterRounds(t) ==
    /\ call'.op = "resume" /\ call'.kind = "auto" /\ call'.tid = t
    /\ call'.env.gen = "ok"
    /\ OnlyPlanRounds(rows.of[t])

\* C24: after the start and any number k of consecutive revision resumes
\* at plan_review, a further revision leaves the session paused before
\* plan_review in phase plan_review, and an approval returns phase
\* interface_review with the very state the approval right after the start
\* (k = 0) returns.
C24_RevisionRoundsRepeat ==
    [][\A t \in Threads :
          ResumeAfterRounds(t) =>
              IF Normal(call'.feedback) = Approved
              THEN /\ call'.result.phase = "interface_review"
                   /\ call'.result =
                        AutoResumeRun(rows.of[t][1], call'.feedback, fs,
                                      call'.env).values
              ELSE /\ db'[t].next = "plan_review"
                   /\ call'.result.phase = "plan_review"
                   /\ OnlyPlanRounds(rows'.of[t])]_vars

\* an approval after at least two revision rounds
C24_Witness ==
    /\ call.op = "resume" /\ call.kind = "auto"
    /\ Normal(call.feedback) = Approved
    /\ call.result.phase = "interface_review"
    /\ Len(rows.of[call.tid]) >= 4
    /\ OnlyPlanRounds(SubSeq(rows.of[call.tid], 1, Len(rows.of[call.tid]) - 1))

(***************************************************************************)
(* hello_world.py: run_hello, a graph compiled without checkpointer.       *)
(***************************************************************************)
MaxHelloLen == 4

HelloChars == {"x", " ", "\n"}

HelloInputs == UNION { [1..n -> HelloChars] : n \in 0..MaxHelloLen }

\* graph.invoke({"input": input_text, "output": ""})
HelloRun(input_text, files) ==
    InvokeStart("hello", [input |-> input_text, output |-> <<>>], files, EnvNone)

\* result.get("output", "")
run_hello(input_text, files) == Get(HelloRun(input_text, files).values, "output", <<>>)

RunHello ==
    \E x \in HelloInputs :
        /\ call' = [CallRecord("run_hello", "hello", "", x, <<>>, EnvNone, NoCkpt,
                               HelloRun(x, fs))
                       EXCEPT !.view = run_hello(x, fs)]
        /\ UNCHANGED <<db, connMem, fs, inflight, rows>>

NextHello == RunHello

SpecHello == Init /\ [][NextHello]_vars

\* C25: run_hello(x) returns 'Global Agent Response: ' followed by x, and
\* the call runs the respond step exactly once and ends without a pause.
C25_HelloPrependsPrefix ==
    call.op = "run_hello" =>
        /\ call.view = HelloPrefix \o call.content
        /\ call.trace = <<"respond">>
        /\ ~call.raised
        /\ HelloRun(call.content, fs).next = END

\* a call whose input is not empty and holds white space
C25_Witness ==
    /\ call.op = "run_hello"
    /\ Len(call.content) = MaxHelloLen
    /\ \E i \in 1..Len(call.content) : IsSpace(call.content[i])
    /\ call.view # HelloPrefix

\* the session the call resumed had reached the end of its graph
AtTerminus ==
    /\ call.op = "resume"
    /\ call.pre.kind # "none"
    /\ call.pre.next = END

\* C26: a resume of a session that has reached a terminus (done, aborted,
\* or an error that ended the graph) leaves every field of the session
\* state as it was, human_feedback and a stored error description
\* included, and stores no new checkpoint for the session.
C26_TerminusIsImmutable ==
    AtTerminus =>
        /\ call.result = call.pre.values
        /\ db[call.tid] = call.pre

\* the first step of a started PR review, pull_data, signalled failure
\* (pull_data reads pr_url and the outcome of the pull script only)
PullSignalledFailure ==
    /\ call.op = "start" /\ call.kind = "pr_review" /\ ~call.raised
    /\ pull_data(call.result, fs, call.env).patch.phase = "error"

\* C27: once a step of a call has signalled failure the run loop halts:
\* it is the last step the call executes and the phase error it set is
\* what the call returns.
C27_FailureHaltsTheRun ==
    PullSignalledFailure =>
        /\ call.trace = <<"pull_data">>
        /\ call.result.phase = "error"

(***************************************************************************)
(* principal_flow.py: run_principal_flow, one invoke from START to END.    *)
(***************************************************************************)
EnvPrincipal ==
    { Env(g, o, "ok", TRUE) : g \in {"ok", "planner", "interfacer", "executor"},
                              o \in GenOutputs }

run_principal_flow(tid, task_description, project_root, env) ==
    LET initial == [task_description |-> task_description,
                    project_root |-> OrCwd(project_root)]
        pre == Load(Store, tid)
    IN  /\ pre.kind \in {"principal", "none"}
        /\ Finish("run", "principal", tid, <<>>, <<>>, env, pre,
                  InvokeStart("principal", initial, fs, env))

RunPrincipal ==
    \E tid \in Threads, task \in TaskInputs, root \in RootInputs, env \in EnvPrincipal :
        run_principal_flow(tid, task, root, env)

NextPrincipal == RunPrincipal \/ Reconnect

SpecPrincipal == Init /\ [][NextPrincipal]_vars

\* a step of the run failed: the generator call of planner, interfacer or
\* executor raised (the steps before it succeeded and wrote its input)
PrincipalStepFailed ==
    /\ call.op = "run" /\ call.kind = "principal"
    /\ \E node \in Nodes("principal") : PrincipalFails(call.env, node)

\* C28: the state run_principal_flow returns after a run in which planner,
\* interfacer or executor failed carries an indication of the failure: an
\* error field or an error phase.
C28_PrincipalFailureIsVisible ==
    PrincipalStepFailed =>
        \/ "_error" \in DOMAIN call.result
        \/ "error" \in DOMAIN call.result
        \/ Get(call.result, "phase", "") = "error"

(***************************************************************************)
(* plan_auto_ollama.py / plan_auto_anthropic.py: _chat, the one call every *)
(* generate_* function of a backend returns the value of.                  *)
(***************************************************************************)
LLMError == <<"[","L","L","M"," ","e","r","r","o","r","]">>

\* try: the stripped content of the answer; except Exception: the text
ollama_chat(service, content) ==
    IF service = "down" THEN LLMError ELSE Strip(content)

\* what the backend's generate_* functions do in a call: they return what
\* _chat returns, or raise outside _chat (no API key, no backend module)
EnvLLM ==
    { Env("ok", ollama_chat(s, o), "ok", TRUE) : s \in {"up", "down"}, o \in GenOutputs }
      \cup { Env("raise", o, "ok", TRUE) : o \in GenOutputs }

StartLLM ==
    \E tid \in OneThread, task \in TaskInputs, root \in RootInputs, env \in EnvLLM :
        start_auto_plan(tid, task, root, env)

ResumeLLM ==
    \E tid \in OneThread, feedback \in AutoFeedbackInputs, env \in EnvLLM :
        resume_auto_plan(tid, feedback, env)

NextLLM == StartLLM \/ ResumeLLM

SpecLLM == Init /\ [][NextLLM]_vars

\* the planner step ran in the call and the LLM call of its generator
\* failed
PlannerLLMFailed ==
    /\ call.kind = "auto" /\ call.op \in {"start", "resume"}
    /\ call.trace # <<>> /\ LastNode = "planner"
    /\ call.env.gen = "ok"
    /\ call.env.out = ollama_chat("down", <<>>)

\* C29: a start or resume of the auto flow in which the LLM call fails
\* while the planner step runs returns phase error, not plan_review.
C29_LLMFailureIsAnError ==
    PlannerLLMFailed =>
        /\ call.result.phase = "error"
        /\ call.result.phase # "plan_review"

\* a resume with non-blank review content of a PR review paused before
\* gate_review
ReviewSubmitted ==
    /\ call.op = "resume" /\ call.kind = "pr_review"
    /\ call.pre.kind = "pr_review" /\ call.pre.next = "gate_review"
    /\ Strip(call.content) # <<>>

\* the call returned the review injected as the recommendations recs
InjectedAs(recs) ==
    /\ recs # <<>>
    /\ call.result.recommendations = recs
    /\ call.result.current_index = 0
    /\ call.result.phase = "recommendation"
    /\ call.result.generated_review_content = <<>>
    /\ call.result.current_recommendation_text = recs[1]
    /\ db[call.tid].next = "gate"

\* C30: a resume with non-blank content of a PR review paused before
\* gate_review sets recommendations to the non-empty list parsed from the
\* content, current_index to 0 and phase to recommendation, clears
\* generated_review_content, and returns paused before gate with the first
\* recommendation as current_recommendation_text.
C30_ReviewIsInjected ==
    ReviewSubmitted =>
        /\ ~call.raised
        /\ InjectedAs(OrContent(parse_recommendations(Strip(call.content)),
                                Strip(call.content)))

C30_Witness ==
    /\ ReviewSubmitted /\ call.content = ReviewThree
    /\ Len(call.result.recommendations) = 3
    /\ call.result.current_recommendation_text = <<"a">>
    /\ call.trace = <<"gate_review", "present_recommendation">>

\* a resume that returned, of a PR review whose state holds the index
IndexedResume ==
    /\ call.op = "resume" /\ call.kind = "pr_review" /\ ~call.raised
    /\ call.pre.kind = "pr_review"
    /\ "current_index" \in DOMAIN call.pre.values
    /\ "recommendations" \in DOMAIN call.pre.values

\* the call moved the session into phase done
ReachedDone ==
    /\ call.result.phase = "done"
    /\ Get(call.pre.values, "phase", "") # "done"

\* the step from the index i and the list recs the call found
ShownInOrder(i, recs) ==
    /\ call.pre.next = "gate_review" => call.result.current_index = 0
    /\ call.pre.next = "gate" =>
          /\ call.result.recommendations = recs
          /\ call.result.current_index \in {i, i + 1}
          /\ call.result.current_index = i + 1 =>
                Normal(call.result.human_feedback) \in ApproveTokens
    /\ db[call.tid].next = "gate" =>
          call.result.current_recommendation_text =
              IF call.result.current_index < Len(call.result.recommendations)
              THEN call.result.recommendations[call.result.current_index + 1]
              ELSE <<>>
    /\ (ReachedDone /\ recs # <<>>) =>
          /\ call.pre.next = "gate"
          /\ i = Len(recs) - 1
          /\ call.result.current_index = Len(recs)

CliProc == "p1"

CliThread == "A"

\* what the user types at the review prompt
Quit == <<"q">>

TypedInputs == { <<>>, RevisionNote, <<" ">>, <<"Q"," ">> }

Cli(pc, result, saved, revising) ==
    [pc |-> pc, result |-> result, saved |-> saved, revising |-> revising]

\* effects of a call made by the loop, which then is at pc
CliCalled(op, content, feedback, pre, r, entry) ==
    /\ Stored(StoreAfter("interactive", CliThread, r))
    /\ fs' = r.fs
    /\ call' = CallRecord(op, "interactive", CliThread, content, feedback,
                          EnvNone, pre, r)
    /\ inflight' = [inflight EXCEPT ![CliProc] = entry]

\* result = start_interactive_plan(...)
CliStartCall(task, root, r) ==
    CliCalled("start", <<>>, <<>>, NoCkpt, r, Cli("loop", r.values, "", FALSE))

CliStart ==
    \E task \in TaskInputs, root \in RootInputs :
        /\ inflight[CliProc].pc = "idle"
        /\ Load(Store, CliThread) = NoCkpt
        /\ CliStartCall(task, root,
              InvokeStart("interactive",
                          [task_description |-> task,
                           project_root |-> OrCwd(root),
                           phase |-> "plan",
                           context_bundle |-> EmptyBundle,
                           generated_content |-> <<>>,
                           human_feedback |-> <<>>], fs, EnvNone))

\* the phase whose artifact the resume saved, if it saved one
SavedBy(phase, r) == IF Get(r.values, "phase", "done") # phase THEN phase ELSE ""

\* after the resume with content: `continue` on done, else the review prompt
CliSaved(phase, content, pre, r) ==
    CliCalled("resume", content, <<>>, pre, r,
              Cli(IF Get(r.values, "phase", "done") = "done" THEN "loop" ELSE "review",
                  r.values, SavedBy(phase, r), FALSE))

\* top of the loop: leave on done, else generate content and resume with it
CliGenerate ==
    /\ inflight[CliProc].pc = "loop"
    /\ IF Get(inflight[CliProc].result, "phase", "done") = "done"
       THEN /\ inflight' = [inflight EXCEPT ![CliProc].pc = "exited"]
            /\ UNCHANGED <<db, connMem, fs, call, rows>>
       ELSE \E content \in ContentInputs :
              CliSaved(inflight[CliProc].result.phase, content,
                       Load(Store, CliThread),
                       InteractiveResumeRun(Load(Store, CliThread), content,
                                            <<>>, fs))

\* the resume with the feedback typed; the loop goes back to its top
CliRevise(feedback, pre, r) ==
    CliCalled("resume", <<>>, feedback, pre, r,
              Cli("loop", r.values, inflight[CliProc].saved, TRUE))

\* _prompt_review: strip; 'q' quits; empty accepts; other text revises
CliReview ==
    /\ inflight[CliProc].pc = "review"
    /\ \E typed \in TypedInputs :
          IF Lower(Strip(typed)) = Quit
          THEN /\ inflight' = [inflight EXCEPT ![CliProc].pc = "exited"]
               /\ UNCHANGED <<db, connMem, fs, call, rows>>
          ELSE IF Strip(typed) = <<>>
          THEN /\ inflight' = [inflight EXCEPT ![CliProc].pc = "loop"]
               /\ UNCHANGED <<db, connMem, fs, call, rows>>
          ELSE CliRevise(Strip(typed), Load(Store, CliThread),
                         InteractiveResumeRun(Load(Store, CliThread), <<>>,
                                              Strip(typed), fs))

NextCli == CliStart \/ CliGenerate \/ CliReview

SpecCli == Init /\ [][NextCli]_vars

\* the loop is at its top after revision feedback on a saved artifact
RevisionPending ==
    /\ inflight[CliProc].pc = "loop"
    /\ inflight[CliProc].revising
    /\ inflight[CliProc].saved # ""

\* C32: after revision feedback at the review prompt that follows the
\* saving of an artifact, the content the loop generates next is that of
\* the same phase, the one whose artifact was reviewed.
C32_RevisionRegeneratesSameArtifact ==
    RevisionPending =>
        Get(inflight[CliProc].result, "phase", "done") = inflight[CliProc].saved

(***************************************************************************)
(* plan_auto.py: the backend registry.  start_auto_plan and                *)
(* resume_auto_plan resolve the backend name before they build the graph.  *)
(***************************************************************************)
BACKENDS == {"ollama", "anthropic"}

BackendInputs == BACKENDS \cup {"gpt"}

\* a resolver that takes the default backend for a name it does not know
resolve_backend_or_default(name) == TRUE

\* _resolve_backend returns the module (TRUE) or raises ValueError (FALSE)
resolve_backend(name) == name \in BACKENDS

\* effects of a call given the backend name, r being the run it made
FinishBackend(op, tid, feedback, env, pre, r, backend) ==
    /\ Stored(StoreAfter("auto", tid, r))
    /\ fs' = r.fs
    /\ call' = [CallRecord(op, "auto", tid, <<>>, feedback, env, pre, r)
                   EXCEPT !.view = backend]
    /\ UNCHANGED inflight

start_auto_plan_backend(tid, task_description, project_root, env, backend) ==
    /\ Load(Store, tid) = NoCkpt
    /\ FinishBackend("start", tid, <<>>, env, NoCkpt,
          IF resolve_backend(backend)
          THEN InvokeStart("auto",
                           [task_description |-> task_description,
                            project_root |-> OrCwd(project_root),
                            human_feedback |-> <<>>,
                            phase |-> "planning"], fs, env)
          ELSE Rejected(NoCkpt, fs),
          backend)

resume_auto_plan_backend(tid, human_feedback, env, backend) ==
    /\ Load(Store, tid).kind \in {"auto", "none"}
    /\ FinishBackend("resume", tid, human_feedback, env, Load(Store, tid),
          IF resolve_backend(backend)
          THEN AutoResumeRun(Load(Store, tid), human_feedback, fs, env)
          ELSE Rejected(Load(Store, tid), fs),
          backend)

StartBackend ==
    \E tid \in OneThread, task \in TaskInputs, root \in RootInputs, env \in EnvAuto, backend \in BackendInputs :
        start_auto_plan_backend(tid, task, root, env, backend)

ResumeBackend ==
    \E tid \in OneThread, feedback \in AutoFeedbackInputs, env \in EnvAuto, backend \in BackendInputs :
        resume_auto_plan_backend(tid, feedback, env, backend)

NextBackend == StartBackend \/ ResumeBackend

SpecBackend == Init /\ [][NextBackend]_vars

\* C33: a start or resume of the auto flow with a backend name that is not
\* in the registry raises before the graph is built: no step runs, no
\* generator is called, no patch is applied, and the checkpoints and the
\* project files are as before the call.
C33_UnknownBackendRaisesFirst ==
    [][(call'.op \in {"start", "resume"} /\ call'.view \notin BACKENDS) =>
          /\ call'.raised
          /\ call'.trace = <<>> /\ call'.gens = <<>>
          /\ UNCHANGED <<db, connMem, fs, rows>>]_vars

\* a resume of a started session with the unknown name, feedback given
C33_Witness ==
    /\ call.op = "resume" /\ call.view = "gpt"
    /\ call.pre.kind = "auto" /\ call.pre.next = "plan_review"
    /\ call.feedback = Approved
    /\ call.raised
    /\ db[call.tid] = call.pre

\* the call of the step is a start or resume of the auto flow in which the
\* planner ran on a state that holds the project root
PlannerRan ==
    /\ call'.kind = "auto" /\ call'.op \in {"start", "resume"} /\ ~call'.raised
    /\ call'.trace # <<>>
    /\ call'.trace[Len(call'.trace)] = "planner"
    /\ "project_root" \in DOMAIN call'.result

\* the generator call the planner has to make on feedback f, plan.md being
\* there or not when the call began
PlannerCall(f, exists) ==
    IF f # <<>> /\ Normal(f) # Approved /\ exists
    THEN [fn |-> "generate_plan_revision", feedback |-> f]
    ELSE [fn |-> "generate_plan", feedback |-> <<>>]

\* C34: the planner calls the revision generator with the feedback exactly
\* when human_feedback is not empty, is not 'approved' after strip and
\* lower, and plan.md exists, and the plan generator otherwise; when the
\* generator returns, plan.md holds its text, human_feedback is '' and the
\* phase is plan_review.
C34_PlannerRevisesOrGenerates ==
    [][PlannerRan =>
          /\ call'.gens =
               <<PlannerCall(IF call'.op = "start" THEN <<>> ELSE call'.feedback,
                             fs[call'.result.project_root][PLAN_FILE].exists)>>
          /\ call'.env.gen = "ok" =>
               /\ call'.result.human_feedback = <<>>
               /\ call'.result.phase = "plan_review"
               /\ fs'[call'.result.project_root][PLAN_FILE] = FileOf(call'.env.out)]_vars

\* a revision of an existing plan
C34_Witness ==
    /\ call.kind = "auto" /\ call.op = "resume" /\ ~call.raised
    /\ call.trace = <<"plan_review", "planner">>
    /\ call.gens = <<[fn |-> "generate_plan_revision", feedback |-> RevisionNote]>>
    /\ call.result.phase = "plan_review"
    /\ call.result.human_feedback = <<>>

\* the nodes an edge of the compiled graph leads to from node
Successors(kind, node) ==
    IF node \in Conditional(kind)
    THEN {CandidateMap(kind, node)[k] : k \in DOMAIN CandidateMap(kind, node)}
    ELSE {FixedEdge(kind, node)}

\* the nodes a run goes on to without a pause
RunsOn(kind, node) == Successors(kind, node) \ (InterruptBefore(kind) \cup {END})

RECURSIVE RunsThrough(_, _, _)
\* the nodes a run can execute from the nodes of S within n steps and no pause
RunsThrough(kind, S, n) ==
    IF n = 0 THEN S
    ELSE RunsThrough(kind, S \cup UNION {RunsOn(kind, m) : m \in S}, n - 1)

\* every cycle of the graph passes through a node of interrupt_before
CyclesPause(kind) ==
    \A node \in Nodes(kind) \ InterruptBefore(kind) :
        node \notin RunsThrough(kind, RunsOn(kind, node), Cardinality(Nodes(kind)))

\* no node occurs twice in the trace
RanOnce(trace) ==
    \A i, j \in 1..Len(trace) : trace[i] = trace[j] => i = j

\* C35: every cycle of the three graphs passes through an interrupt point,
\* so a start or resume call runs every step at most once (at most as many
\* steps as the graph has nodes) and, unless a step raised, ends at an
\* interrupt point or at the end of the graph.
C35_CallsTerminate ==
    /\ \A kind \in Kinds : CyclesPause(kind)
    /\ (call.op \in {"start", "resume"} /\ call.kind \in Kinds) =>
         /\ RanOnce(call.trace)
         /\ Len(call.trace) <= Cardinality(Nodes(call.kind))
         /\ (call.trace # <<>> /\ ~call.raised) =>
               db[call.tid].next \in InterruptBefore(call.kind) \cup {END}

\* a resume that went round the revision cycle and paused where it began
C35_Witness ==
    /\ call.op = "resume" /\ call.kind = "interactive" /\ ~call.raised
    /\ call.trace = <<"gate", "save", "assemble">>
    /\ call.pre.next = "gate"
    /\ db[call.tid].next = "gate"

\* the order of the phases of an interactive session; 0 for a thread whose
\* state holds no phase
PhaseRank(phase) ==
    CASE phase = "plan" -> 1
      [] phase = "interface" -> 2
      [] phase = "code" -> 3
      [] phase = "done" -> 4
      [] OTHER -> 0

\* the phase a checkpoint holds
PhaseOf(ckpt) == IF ckpt = NoCkpt THEN "" ELSE Get(ckpt.values, "phase", "")

\* the phase of the session of thread t before and after the step
PhaseBefore(t) == PhaseOf(IF connMem[t] # NoCkpt THEN connMem[t] ELSE db[t])

PhaseAfter(t) == PhaseOf(IF connMem'[t] # NoCkpt THEN connMem'[t] ELSE db'[t])

\* C36: over the resume calls of an interactive session the phase never
\* moves backwards in the order plan < interface < code < done, and it
\* changes only in a resume that supplied non-blank content.
C36_PhaseOnlyAdvances ==
    [][\A t \in Threads :
          call'.op # "start" =>
             /\ PhaseRank(PhaseBefore(t)) <= PhaseRank(PhaseAfter(t))
             /\ PhaseBefore(t) # PhaseAfter(t) =>
                   /\ call'.op = "resume" /\ call'.tid = t
                   /\ Strip(call'.content) # <<>>
                   /\ call'.result.phase = PhaseAfter(t)]_vars

\* a resume with content moved the session from interface to code
C36_Witness ==
    /\ call.op = "resume" /\ call.kind = "interactive" /\ ~call.raised
    /\ Strip(call.content) # <<>>
    /\ call.pre.kind = "interactive"
    /\ call.pre.values.phase = "interface"
    /\ call.result.phase = "code"
    /\ db[call.tid].values.phase = "code"

\* the sessions of the interactive flow that are paused before gate
PausedAtGate(t) ==
    /\ Load(Store, t).kind = "interactive"
    /\ Load(Store, t).next = "gate"

\* the feedback the assemble step of the last call read
AssembledFeedback == IF call.op = "start" THEN <<>> ELSE call.feedback

\* the context the assemble step builds on the state and the files
AssembledContext(values, files) ==
    interactive_assemble(values, files, EnvNone).patch.context_bundle

\* the checkpoint with another context bundle
WithBundle(ckpt, bundle) ==
    [ckpt EXCEPT !.values = Merge(ckpt.values, [context_bundle |-> bundle])]

\* what a resume of the checkpoint returns and writes, for every input
ResumeEffects(ckpt, files) ==
    [content \in ContentInputs, feedback \in InteractiveFeedbackInputs |->
        [values |-> InteractiveResumeRun(ckpt, content, feedback, files).values,
         fs |-> InteractiveResumeRun(ckpt, content, feedback, files).fs]]

\* C37: in a session paused before gate generated_content and
\* human_feedback are empty and context_bundle is the context assembled for
\* the current phase (from the feedback of the call that paused it); the
\* next resume depends on nothing else an earlier resume supplied: it
\* returns and writes the same whatever the stored context_bundle holds.
C37_PausedStateIsClean ==
    \A t \in Threads :
        PausedAtGate(t) =>
           /\ Load(Store, t).values.generated_content = <<>>
           /\ Load(Store, t).values.human_feedback = <<>>
           /\ (call.op \in {"start", "resume"} /\ call.tid = t) =>
                 Load(Store, t).values.context_bundle =
                    AssembledContext(Merge(Load(Store, t).values,
                                           [human_feedback |-> AssembledFeedback]), fs)
           /\ ResumeEffects(Load(Store, t), fs) =
                 ResumeEffects(WithBundle(Load(Store, t), EmptyBundle), fs)

\* a resume with feedback paused the session again, feedback consumed
C37_Witness ==
    /\ call.op = "resume" /\ call.kind = "interactive" /\ ~call.raised
    /\ call.feedback = RevisionNote
    /\ call.trace = <<"gate", "assemble">>
    /\ PausedAtGate(call.tid)
    /\ call.result.human_feedback = <<>>
    /\ call.result.context_bundle # EmptyBundle

\* C38: in every reachable state of a PR review session, after any
\* sequence of start and resume calls with any content and feedback,
\* 0 <= current_index <= len(recommendations).
C38_IndexWithinRecommendations ==
    \A t \in Threads :
        Load(Store, t).kind = "pr_review" =>
           /\ 0 <= Get(Load(Store, t).values, "current_index", 0)
           /\ Get(Load(Store, t).values, "current_index", 0)
                 <= Len(Get(Load(Store, t).values, "recommendations", <<>>))

\* the fields the update returned by a step can name
Writes(kind, node) ==
    CASE kind = "auto" /\ node \in {"planner", "interfacer", "executor"} ->
           {"phase", "human_feedback"}
      [] kind = "auto" /\ node \in {"plan_review", "interface_review"} -> {"phase"}
      [] kind = "interactive" /\ node = "assemble" ->
           {"context_bundle", "generated_content", "human_feedback"}
      [] kind = "interactive" /\ node = "save" ->
           {"phase", "generated_content", "context_bundle"}
      [] kind = "pr_review" /\ node = "pull_data" ->
           {"repo_path", "phase", "recommendations", "current_index",
            "full_review_text"}
      [] kind = "pr_review" /\ node = "assemble_review_context" ->
           {"phase", "review_context_bundle", "recommendations",
            "generated_review_content"}
      [] kind = "pr_review" /\ node = "gate_review" ->
           {"phase", "full_review_text", "recommendations", "current_index",
            "current_recommendation_text", "generated_review_content"}
      [] kind = "pr_review" /\ node = "present_recommendation" ->
           {"current_recommendation_text", "phase"}
      [] kind = "pr_review" /\ node = "gate" -> {"phase", "current_index"}
      [] OTHER -> {}

\* the fields that identify what a session works on
IdentityFields == {"task_description", "project_root", "pr_url"}

\* the values those fields can be given at start
StartValues(key) ==
    CASE key = "task_description" -> TaskInputs
      [] key = "project_root" -> {OrCwd(root) : root \in RootInputs}
      [] key = "pr_url" -> PrUrlInputs

\* the fields named in the patch of the call or in the update of a step it ran
Named(c) ==
    (DOMAIN CallerPatch(c.kind, c.content, c.feedback))
       \cup UNION {Writes(c.kind, c.trace[i]) : i \in 1..Len(c.trace)}

\* the stored state of the session of thread t before and after the step
ValuesBefore(t) == (IF connMem[t] # NoCkpt THEN connMem[t] ELSE db[t]).values

ValuesAfter(t) == (IF connMem'[t] # NoCkpt THEN connMem'[t] ELSE db'[t]).values

\* C39: a step's update and a resume patch overwrite only the fields they
\* name: a resume call leaves every field of the state it found that is
\* named neither in its patch nor in the update of a step it ran, and drops
\* none; task_description, project_root and pr_url hold a value given at
\* start after the start call and are the same before and after every
\* later step.
C39_OnlyNamedFieldsChange ==
    [][/\ (call'.op = "start" /\ call'.kind \in Kinds) =>
             \A k \in IdentityFields \cap DOMAIN call'.result :
                 /\ call'.result[k] \in StartValues(k)
                 /\ ValuesAfter(call'.tid)[k] = call'.result[k]
       /\ (call'.op = "resume" /\ call'.kind \in Kinds) =>
             \A k \in DOMAIN call'.pre.values :
                 /\ k \in DOMAIN call'.result
                 /\ k \notin Named(call') => call'.result[k] = call'.pre.values[k]
       /\ call'.op # "start" =>
             \A t \in Threads :
                 \A k \in IdentityFields :
                     /\ k \in DOMAIN ValuesBefore(t) <=> k \in DOMAIN ValuesAfter(t)
                     /\ k \in DOMAIN ValuesBefore(t) =>
                           ValuesAfter(t)[k] = ValuesBefore(t)[k]]_vars

\* an approval moved an auto session on: phase changed, the task and the
\* project root are the ones given at start
C39_Witness ==
    /\ call.op = "resume" /\ call.kind = "auto" /\ ~call.raised
    /\ call.trace = <<"plan_review", "interfacer">>
    /\ call.pre.values.phase # call.result.phase
    /\ call.result.task_description = call.pre.values.task_description
    /\ call.result.project_root = call.pre.values.project_root
    /\ call.result.task_description \in TaskInputs
    /\ db[call.tid].values.project_root = "proj"

====
